---- MODULE Spec2Model ----
(***************************************************************************)
(* WasmTree: RDF.JS dataset facades and store over a term-identifier map   *)
(* (TermIdMap) and a forest of identifier quads.                           *)
(*                                                                         *)
(* The front end (wasm-tree-frontend/index.ts, lib/termidmap.ts,           *)
(* lib/alternative.ts) is modelled from its source.  The forest lives in   *)
(* the Rust back end, which is not part of the sources at hand: it is      *)
(* modelled from the specification as a set of identifier quads.           *)
(***************************************************************************)
EXTENDS Integers, Sequences, FiniteSets, TLC

\* ------------------------------------------------------------------------
\* Bounds of the model

\* number of dataset facades the callers hold (constructed or derived)
MaxDatasets == 2

\* number of dataset facades held when set algebra is exercised, and how many of
\* them the callers constructed themselves
MaxOperands == 3
MaxRoots == 2

\* longest plain array of quads handed to addAll / set algebra
MaxArrayLen == 1

\* number of removeMatches calls issued on the store
MaxCalls == 2

\* number of streams imported into the store, and the most quads a stream delivers
MaxStreams == 1
MaxStreamLen == 2

\* number of streams match of the store returns
MaxMatches == 1

\* number of iterators built on the facades
MaxIterators == 1

\* ------------------------------------------------------------------------
\* Values of the host language

\* an identifier that is undefined (identifiers are unsigned integers)
UndefinedId == 0 - 1

\* a test of the identifier by its truthiness, which takes 0 for undefined
isLikeNoneId_falsy(identifier) == identifier = UndefinedId \/ identifier = 0

\* true if an identifier is undefined or null; 0 is an identifier like any other
isLikeNoneId(identifier) == identifier = UndefinedId

\* ------------------------------------------------------------------------
\* RDF terms (RDF.JS data model) and their concise keys (graphy)

TermOf(tt, v) == [termType |-> tt, value |-> v]

DefaultGraph == TermOf("DefaultGraph", "")
TS == TermOf("NamedNode", "s")
TP == TermOf("NamedNode", "p")
TO == TermOf("NamedNode", "o")
TL == TermOf("Literal", "o")
TG == TermOf("NamedNode", "g")

Terms == {DefaultGraph, TS, TP, TO, TL, TG}

\* undefined (a hole of an array of terms) and null (a wildcard of a pattern)
UndefinedTerm == TermOf("undefined", "")
NullTerm == TermOf("null", "")

\* true if expr is undefined or null
isLikeNone(expr) == expr = UndefinedTerm \/ expr = NullTerm

\* graphyFactory.fromTerm: normalises a term to a graphy term (same type and value)
fromTerm(term) == TermOf(term.termType, term.value)

\* concise(): the canonical key of a graphy term
concise(term) ==
  CASE term.termType = "DefaultGraph" -> "*"
    [] term.termType = "NamedNode"    -> ">" \o term.value
    [] term.termType = "BlankNode"    -> "_:" \o term.value
    [] term.termType = "Literal"      -> "\"" \o term.value

\* graphyFactory.quad
QuadOf(s, p, o, g) == [subject |-> s, predicate |-> p, object |-> o, graph |-> g]

\* null in the place of a quad
NullQuad == QuadOf(NullTerm, NullTerm, NullTerm, NullTerm)

Q1 == QuadOf(TS, TP, TO, DefaultGraph)
Q2 == QuadOf(TS, TP, TO, TG)

\* the quads the callers hand to the facades
InputQuads == {Q1, Q2}

\* a pattern: each position is a term or null (wildcard)
PatternOf(s, p, o, g) == [subject |-> s, predicate |-> p, object |-> o, graph |-> g]

InputPatterns ==
  { PatternOf(NullTerm, NullTerm, NullTerm, NullTerm),
    PatternOf(NullTerm, NullTerm, NullTerm, DefaultGraph),
    PatternOf(NullTerm, NullTerm, NullTerm, TG),
    PatternOf(NullTerm, NullTerm, TO, NullTerm),
    PatternOf(TS, NullTerm, TL, NullTerm) }

\* term-level quad matching (https://rdf.js.org/dataset-spec/#quad-matching)
QuadAgrees(quad, pattern) ==
  /\ (isLikeNone(pattern.subject)   \/ quad.subject   = fromTerm(pattern.subject))
  /\ (isLikeNone(pattern.predicate) \/ quad.predicate = fromTerm(pattern.predicate))
  /\ (isLikeNone(pattern.object)    \/ quad.object    = fromTerm(pattern.object))
  /\ (isLikeNone(pattern.graph)     \/ quad.graph     = fromTerm(pattern.graph))

\* ------------------------------------------------------------------------
\* Arrays of the host language, indexed from 0

\* array[i], undefined outside the array
At(array, i) == IF i >= 0 /\ i < Len(array) THEN array[i + 1] ELSE UndefinedTerm

\* array[i] = v; the array grows with holes when i is past its end
SetAt(array, i, v) ==
  [k \in 1..(IF i + 1 > Len(array) THEN i + 1 ELSE Len(array)) |->
     IF k = i + 1 THEN v ELSE IF k <= Len(array) THEN array[k] ELSE UndefinedTerm]

\* array.push(v)
Push(array, v) == Append(array, v)

\* ------------------------------------------------------------------------
\* TermIdMap

\* constructor: the default graph is the 0th term
NewTermIdMap ==
  [ identifiersToTerms |-> <<DefaultGraph>>,
    termsToIdentifiers |-> (concise(DefaultGraph) :> 0),
    nextIdentifier     |-> 1 ]

getTerm(map, identifier) == At(map.identifiersToTerms, identifier)

findIdentifier(map, term) ==
  LET c == concise(fromTerm(term))
  IN  IF c \in DOMAIN map.termsToIdentifiers THEN map.termsToIdentifiers[c] ELSE UndefinedId

\* the identifier findOrBuildIdentifier returns
findOrBuildIdentifierRet(map, term) ==
  LET r == findIdentifier(map, term)
  IN  IF r # UndefinedId THEN r ELSE map.nextIdentifier

\* a variant of findOrBuildIdentifier that does not move nextIdentifier on
findOrBuildIdentifier_reusing(map, term) ==
  LET graphyTerm == fromTerm(term)
      c == concise(graphyTerm)
  IN  IF c \in DOMAIN map.termsToIdentifiers
      THEN map
      ELSE [ identifiersToTerms |-> Push(map.identifiersToTerms, graphyTerm),
             termsToIdentifiers |-> (c :> map.nextIdentifier) @@ map.termsToIdentifiers,
             nextIdentifier     |-> map.nextIdentifier ]

\* the map findOrBuildIdentifier leaves
findOrBuildIdentifier(map, term) ==
  LET graphyTerm == fromTerm(term)
      c == concise(graphyTerm)
  IN  IF c \in DOMAIN map.termsToIdentifiers
      THEN map
      ELSE [ identifiersToTerms |-> Push(map.identifiersToTerms, graphyTerm),
             termsToIdentifiers |-> (c :> map.nextIdentifier) @@ map.termsToIdentifiers,
             nextIdentifier     |-> map.nextIdentifier + 1 ]

\* convertToIdentifierQuad: the map after the four findOrBuildIdentifier calls
convertToIdentifierQuad(map, quad) ==
  LET m1 == findOrBuildIdentifier(map, quad.subject)
      m2 == findOrBuildIdentifier(m1, quad.predicate)
      m3 == findOrBuildIdentifier(m2, quad.object)
  IN  findOrBuildIdentifier(m3, quad.graph)

\* convertToIdentifierQuad: the identifier quad it returns
convertToIdentifierQuadRet(map, quad) ==
  LET m1 == findOrBuildIdentifier(map, quad.subject)
      m2 == findOrBuildIdentifier(m1, quad.predicate)
      m3 == findOrBuildIdentifier(m2, quad.object)
  IN  << findOrBuildIdentifierRet(map, quad.subject),
         findOrBuildIdentifierRet(m1, quad.predicate),
         findOrBuildIdentifierRet(m2, quad.object),
         findOrBuildIdentifierRet(m3, quad.graph) >>

\* null in the place of an identifier quad or of the identifiers of a pattern
NullIdentifierQuad == << >>

\* null if a term of the quad has no identifier
tryConvertToIdentifierQuad(map, quad) ==
  LET identifierQuad == << findIdentifier(map, quad.subject),
                           findIdentifier(map, quad.predicate),
                           findIdentifier(map, quad.object),
                           findIdentifier(map, quad.graph) >>
  IN  IF \E k \in 1..4 : identifierQuad[k] = UndefinedId THEN NullIdentifierQuad ELSE identifierQuad

\* the RDF.JS quad of an identifier quad, null if an identifier is unmapped
getQuad(map, identifierQuad) ==
  IF \E k \in 1..4 : getTerm(map, identifierQuad[k]) = UndefinedTerm
  THEN NullQuad
  ELSE QuadOf(getTerm(map, identifierQuad[1]), getTerm(map, identifierQuad[2]),
              getTerm(map, identifierQuad[3]), getTerm(map, identifierQuad[4]))

\* a variant of matchIdentifiers that tests the identifiers by their truthiness:
\* the identifier 0 of the default graph becomes a wildcard
matchIdentifiers_truthy(map, pattern) ==
  LET lift(t) == IF isLikeNone(t) \/ findIdentifier(map, t) = 0 THEN UndefinedId
                 ELSE findIdentifier(map, t)
      unknown(t) == ~isLikeNone(t) /\ isLikeNoneId(findIdentifier(map, t))
  IN  IF unknown(pattern.subject) \/ unknown(pattern.predicate)
         \/ unknown(pattern.object) \/ unknown(pattern.graph)
      THEN NullIdentifierQuad
      ELSE << lift(pattern.subject), lift(pattern.predicate),
              lift(pattern.object), lift(pattern.graph) >>

\* null if a bound term is unknown, else the identifiers (undefined = wildcard)
matchIdentifiers(map, pattern) ==
  LET lift(t) == IF isLikeNone(t) THEN UndefinedId ELSE findIdentifier(map, t)
      unknown(t) == ~isLikeNone(t) /\ isLikeNoneId(findIdentifier(map, t))
  IN  IF unknown(pattern.subject) \/ unknown(pattern.predicate)
         \/ unknown(pattern.object) \/ unknown(pattern.graph)
      THEN NullIdentifierQuad
      ELSE << lift(pattern.subject), lift(pattern.predicate),
              lift(pattern.object), lift(pattern.graph) >>

\* the identifiers of a flat identifier list (new Set(identifierList))
IdentifiersIn(identifierList) == { identifierList[k] : k \in 1..Len(identifierList) }

\* TermIdMap.duplicate throws when an identifier of the list has no term in source
duplicateThrows(source, identifierList) ==
  \E identifier \in IdentifiersIn(identifierList) : getTerm(source, identifier) = UndefinedTerm

RECURSIVE duplicateLoop(_, _, _)
duplicateLoop(self, source, identifiers) ==
  IF identifiers = {} THEN self
  ELSE LET identifier == CHOOSE i \in identifiers : \A j \in identifiers : i <= j
           term == getTerm(source, identifier)
       IN  duplicateLoop(
             [ identifiersToTerms |-> SetAt(self.identifiersToTerms, identifier, term),
               termsToIdentifiers |-> (concise(term) :> identifier) @@ self.termsToIdentifiers,
               nextIdentifier     |-> self.nextIdentifier ],
             source, identifiers \ {identifier})

\* TermIdMap.duplicate: a new map with only the identifiers of the list
duplicate(source, identifierList) ==
  [ duplicateLoop(NewTermIdMap, source, IdentifiersIn(identifierList))
      EXCEPT !.nextIdentifier = source.nextIdentifier ]

\* ------------------------------------------------------------------------
\* Identifier quads and flat identifier lists [s1, p1, o1, g1, s2, ...]

\* lexicographic order on identifier quads (the SPOG order of the anchor tree)
QuadLess(a, b) ==
  \E k \in 1..4 : a[k] < b[k] /\ \A j \in 1..(k - 1) : a[j] = b[j]

RECURSIVE SortedList(_)
SortedList(quads) ==
  IF quads = {} THEN <<>>
  ELSE LET first == CHOOSE a \in quads : \A b \in quads \ {a} : QuadLess(a, b)
       IN  first \o SortedList(quads \ {first})

\* the identifier quad that starts at position index (from 0) of a flat list
QuadAt(list, index) ==
  << list[index + 1], list[index + 2], list[index + 3], list[index + 4] >>

\* the identifier quads of a flat list, as a set
QuadsOfList(list) == { QuadAt(list, 4 * i) : i \in 0..((Len(list) \div 4) - 1) }

\* an identifier quad agrees with the identifiers of a pattern (undefined = wildcard)
IdentifierQuadAgrees(identifierQuad, matchResult) ==
  \A k \in 1..4 : isLikeNoneId(matchResult[k]) \/ identifierQuad[k] = matchResult[k]

AllWildcards == << UndefinedId, UndefinedId, UndefinedId, UndefinedId >>

\* ------------------------------------------------------------------------
\* ForestOfIdentifierQuads (back end): the set of identifier quads it holds

NewForest == {}

fromIdentifierList(identifierList) == QuadsOfList(identifierList)

ForestAdd(forest, identifierQuad) == forest \cup {identifierQuad}

ForestRemove(forest, identifierQuad) == forest \ {identifierQuad}

ForestHas(forest, identifierQuad) == identifierQuad \in forest

ForestSize(forest) == Cardinality(forest)

ForestMatching(forest, matchResult) ==
  { identifierQuad \in forest : IdentifierQuadAgrees(identifierQuad, matchResult) }

get_all(forest, matchResult) == SortedList(ForestMatching(forest, matchResult))

matchCount(forest, matchResult) == Cardinality(ForestMatching(forest, matchResult))

ForestDeleteMatches(forest, matchResult) == forest \ ForestMatching(forest, matchResult)

insertFromIdentifierList(forest, identifierList) == forest \cup QuadsOfList(identifierList)

ForestIntersect(lhs, rhs) == lhs \cap rhs

ForestUnion(lhs, rhs) == lhs \cup rhs

ForestDifference(lhs, rhs) == lhs \ rhs

intersectIdentifierList(forest, identifierList) == forest \cap QuadsOfList(identifierList)

unionIdentifierList(forest, identifierList) == forest \cup QuadsOfList(identifierList)

differenceIdentifierList(forest, identifierList) == forest \ QuadsOfList(identifierList)

\* has_same_elements: the two forests hold the same identifier quads
has_same_elements(lhs, rhs) == lhs = rhs

\* equalsIdentifierList: the forest holds the identifier quads of the list and no other
equalsIdentifierList(forest, identifierList) == forest = QuadsOfList(identifierList)

\* contains: every identifier quad of rhs is in lhs
ForestContains(lhs, rhs) == rhs \subseteq lhs

\* containsIdentifierList: every identifier quad of the list is in the forest
containsIdentifierList(forest, identifierList) == QuadsOfList(identifierList) \subseteq forest

\* ------------------------------------------------------------------------
\* The orders of a QuadForest

\* the four positions of a quad a pattern may bind
Positions == { "s", "p", "o", "g" }

SPOG == << "s", "p", "o", "g" >>
POGS == << "p", "o", "g", "s" >>
OGSP == << "o", "g", "s", "p" >>
GSPO == << "g", "s", "p", "o" >>
GPOS == << "g", "p", "o", "s" >>
OSPG == << "o", "s", "p", "g" >>

\* the six permutations the system uses, by order index
Orders_withOPSG == << SPOG, POGS, OGSP, GSPO, GPOS, << "o", "p", "s", "g" >> >>

Orders == << SPOG, POGS, OGSP, GSPO, GPOS, OSPG >>

\* the sixteen pattern shapes: each of s, p, o, g bound or wildcard
BoundSets == SUBSET Positions

\* the positions of the prefix of length n of an order
Prefix(order, n) == { order[i] : i \in 1..n }

\* the prefix of the order is a permutation of B
Qualifies(order, B) == Prefix(order, Cardinality(B)) = B

\* the indexes of the orders that qualify for B
Qualifying(B) == { i \in 1..Len(Orders) : Qualifies(Orders[i], B) }

LowestIndexed(indexes) == CHOOSE i \in indexes : \A j \in indexes : i <= j

\* selection rule: an order whose prefix is a permutation of B, a materialized one
\* if there is one, otherwise the lowest-indexed; 0 when no order qualifies
selectOrder(materialized, B) ==
  IF Qualifying(B) = {} THEN 0
  ELSE IF Qualifying(B) \cap materialized # {}
       THEN LowestIndexed(Qualifying(B) \cap materialized)
       ELSE LowestIndexed(Qualifying(B))

\* the identifier quads a forest is handed
ForestQuads == { << 1, 2, 3, 0 >>, << 1, 2, 3, 4 >> }

\* the position of a quad each name stands for
PositionOf(name) == CASE name = "s" -> 1 [] name = "p" -> 2 [] name = "o" -> 3 [] name = "g" -> 4

\* the pattern that binds the positions of B to the identifiers of the quad
PatternFor(B, identifierQuad) ==
  [k \in 1..4 |-> IF \E name \in B : PositionOf(name) = k THEN identifierQuad[k] ELSE UndefinedId]

\* a forest with its anchor alone: the element set of each order (empty for an order
\* that is not materialized), and its last call
QuadForestNew(anchor) ==
  [anchor |-> anchor, materialized |-> { anchor },
   sets |-> [i \in 1..Len(Orders) |-> {}],
   op |-> "new", bound |-> {}, order |-> anchor, built |-> FALSE]

\* the elements of the forest
Members(forest) == forest.sets[forest.anchor]

\* an index that starts empty instead of as a copy of the anchor
materialize_empty(forest, order) ==
  [forest EXCEPT !.materialized = @ \cup { order }]

\* the order is materialized by copying the anchor under the new comparator
materialize(forest, order) ==
  IF order \in forest.materialized THEN forest
  ELSE [forest EXCEPT !.materialized = @ \cup { order },
                      !.sets[order] = forest.sets[forest.anchor]]

\* the change is applied to every materialized set
inEveryMaterializedSet(forest, change(_)) ==
  [forest EXCEPT !.sets = [i \in 1..Len(Orders) |->
     IF i \in forest.materialized THEN change(forest.sets[i]) ELSE forest.sets[i]]]

\* the record of the call that was just made on the forest
Answered(forest, op, B, order, built) ==
  [forest EXCEPT !.op = op, !.bound = B, !.order = order, !.built = built]

\* ------------------------------------------------------------------------
\* State

VARIABLES
  datasets,     \* the dataset facades the callers hold, in order of creation
  termIdMaps,   \* the TermIdMap objects, in order of construction
  last,         \* the last operation called on a facade, and how it ended
  store,        \* the WasmTreeStore: its forest and its TermIdMap
  timers,       \* the functions passed to setTimeout that have not run yet
  emitters,     \* the EventEmitter returned by each removeMatches call
  slast,        \* the last step taken on the store
  streams,      \* the streams of quads passed to import, in order of the calls
  quadForest,   \* a QuadForest: its anchor, the orders it has materialized, its last call
  matches,      \* the WasmTreeStoreMatch streams returned by match of the store
  iterators     \* the WasmTreeDatasetIterator objects built on the facades

datasetVars == << datasets, termIdMaps, last >>
storeVars == << store, timers, emitters, slast, streams, quadForest, matches, iterators >>
vars ==
  << datasets, termIdMaps, last, store, timers, emitters, slast, streams, quadForest,
     matches, iterators >>

\* ------------------------------------------------------------------------
\* Dataset facades

WasmTreeDataset == "WasmTreeDataset"
AlwaysForestDataset == "AlwaysForestDataset"
DatasetWithIdentifierList == "DatasetWithIdentifierList"
DatasetWithSharedTermIdMap == "DatasetWithSharedTermIdMap"

Classes ==
  { WasmTreeDataset, AlwaysForestDataset, DatasetWithIdentifierList, DatasetWithSharedTermIdMap }

\* the field forest: undefined, or a forest
UndefinedForest == [defined |-> FALSE, quads |-> {}]
DefinedForest(quads) == [defined |-> TRUE, quads |-> quads]

\* the field identifierList: undefined, or a flat Uint32Array
UndefinedList == [defined |-> FALSE, data |-> << >>]
DefinedList(data) == [defined |-> TRUE, data |-> data]

Facade(klass, termIdMap, identifierList, forest) ==
  [klass |-> klass, termIdMap |-> termIdMap, identifierList |-> identifierList, forest |-> forest]

\* the facades that exist, and the place the next one gets
Live == 1..Len(datasets)
Fresh == Len(datasets) + 1

\* the TermIdMap object of a facade
MapOf(ds) == termIdMaps[ds.termIdMap]

\* _ensureHasForest that always starts from an empty forest
ensureHasForest_ignoresList(ds) ==
  IF ds.forest.defined THEN ds ELSE [ds EXCEPT !.forest = DefinedForest(NewForest)]

\* _ensureHasForest that gives up the identifier list once the forest is built
ensureHasForest_dropsList(ds) ==
  IF ds.forest.defined THEN ds
  ELSE IF ds.identifierList.defined
       THEN [ds EXCEPT !.forest = DefinedForest(fromIdentifierList(ds.identifierList.data)),
                       !.identifierList = UndefinedList]
       ELSE [ds EXCEPT !.forest = DefinedForest(NewForest)]

\* _ensureHasForest: if an identifier list is owned the forest holds the same quads
ensureHasForest(ds) ==
  IF ds.forest.defined THEN ds
  ELSE IF ds.identifierList.defined
       THEN [ds EXCEPT !.forest = DefinedForest(fromIdentifierList(ds.identifierList.data))]
       ELSE [ds EXCEPT !.forest = DefinedForest(NewForest)]

\* _ensureHasModifiableForest that keeps the identifier list
ensureHasModifiableForest_keepsList(ds) == ensureHasForest(ds)

\* _ensureHasModifiableForest: a forest is owned and no identifier list is owned
ensureHasModifiableForest(ds) ==
  [ensureHasForest(ds) EXCEPT !.identifierList = UndefinedList]

\* free that releases the forest only
free_keepsList(ds) == [ds EXCEPT !.forest = UndefinedForest]

\* free: releases the forest and empties the dataset
free(ds) == [ds EXCEPT !.forest = UndefinedForest, !.identifierList = UndefinedList]

\* get size
size(ds) ==
  IF ds.identifierList.defined THEN Len(ds.identifierList.data) \div 4
  ELSE IF ds.forest.defined THEN ForestSize(ds.forest.quads)
  ELSE 0

\* a variant of _asIdentifierList that builds the forest of a facade that only holds a list
asIdentifierList_buildsForest(ds) ==
  IF ds.klass \in {WasmTreeDataset, DatasetWithIdentifierList}
  THEN IF ~ds.identifierList.defined /\ ds.forest.defined
       THEN [ds EXCEPT !.identifierList = DefinedList(get_all(ds.forest.quads, AllWildcards))]
       ELSE IF ds.identifierList.defined /\ ~ds.forest.defined
            THEN [ds EXCEPT !.forest = DefinedForest(QuadsOfList(ds.identifierList.data))]
            ELSE ds
  ELSE ds

\* _asIdentifierList: the facade it leaves (the classes with an identifier list cache it)
asIdentifierList(ds) ==
  IF ds.klass \in {WasmTreeDataset, DatasetWithIdentifierList}
  THEN IF ~ds.identifierList.defined /\ ds.forest.defined
       THEN [ds EXCEPT !.identifierList = DefinedList(get_all(ds.forest.quads, AllWildcards))]
       ELSE ds
  ELSE ds

\* _asIdentifierList: the flat list it returns
asIdentifierListRet(ds) ==
  IF ds.klass \in {WasmTreeDataset, DatasetWithIdentifierList}
  THEN IF ds.identifierList.defined THEN ds.identifierList.data
       ELSE IF ds.forest.defined THEN get_all(ds.forest.quads, AllWildcards) ELSE << >>
  ELSE IF ds.forest.defined THEN get_all(ds.forest.quads, AllWildcards) ELSE << >>

\* WasmTreeDatasetIterator: the quads next() yields until done, in order
IteratorQuads(map, data) ==
  [i \in 1..(Len(data) \div 4) |-> getQuad(map, QuadAt(data, 4 * (i - 1)))]

\* [...dataset]: the quads an iteration of the facade yields
toArray(ds) == IteratorQuads(MapOf(ds), asIdentifierListRet(ds))

\* has: what it returns
has(ds, quad) ==
  LET identifierQuad == tryConvertToIdentifierQuad(MapOf(ds), quad)
  IN  IF identifierQuad = NullIdentifierQuad THEN FALSE
      ELSE ForestHas(ensureHasForest(ds).forest.quads, identifierQuad)

\* countQuads: what it returns
countQuads(ds, pattern) ==
  IF ~ds.forest.defined /\ ~ds.identifierList.defined THEN 0
  ELSE LET matchResult == matchIdentifiers(MapOf(ds), pattern)
       IN  IF matchResult = NullIdentifierQuad THEN 0
           ELSE matchCount(ensureHasForest(ds).forest.quads, matchResult)

\* the record of an operation: its name, the facade it was called on, its argument,
\* the slot of the facade it returned (0: none) and whether it threw
Called(op, d, arg, r, threw) == [op |-> op, d |-> d, arg |-> arg, r |-> r, threw |-> threw]

NoArg == << >>

\* ------------------------------------------------------------------------
\* Operations of the dataset facades

\* new klass(): every class starts with a TermIdMap of its own; WasmTreeDataset
\* starts without a forest, the other classes with an empty one
NewDataset(klass, limit) ==
  /\ Len(datasets) < limit
  /\ termIdMaps' = Append(termIdMaps, NewTermIdMap)
  /\ datasets' = Append(datasets,
       Facade(klass, Len(termIdMaps) + 1, UndefinedList,
              IF klass = WasmTreeDataset THEN UndefinedForest ELSE DefinedForest(NewForest)))
  /\ last' = Called("new", Fresh, NoArg, 0, FALSE)
  /\ UNCHANGED storeVars

\* add(quad)
Add(d, quad) ==
  /\ d \in Live
  /\ LET ds == datasets[d]
         identifierQuad == convertToIdentifierQuadRet(MapOf(ds), quad)
     IN  /\ termIdMaps' = [termIdMaps EXCEPT ![ds.termIdMap] = convertToIdentifierQuad(@, quad)]
         /\ datasets' = [datasets EXCEPT ![d] =
              [ensureHasModifiableForest(ds) EXCEPT !.forest.quads = ForestAdd(@, identifierQuad)]]
  /\ last' = Called("add", d, quad, 0, FALSE)
  /\ UNCHANGED storeVars

\* a variant of delete that removes the quads with the subject, predicate and
\* object of the quad, whatever their graph
Delete_anyGraph(d, quad) ==
  /\ d \in Live
  /\ LET ds == datasets[d]
         identifierQuad == tryConvertToIdentifierQuad(MapOf(ds), quad)
     IN  datasets' = [datasets EXCEPT ![d] =
           IF identifierQuad # NullIdentifierQuad
           THEN [ensureHasModifiableForest(ds) EXCEPT !.forest.quads =
                   ForestDeleteMatches(@, << identifierQuad[1], identifierQuad[2],
                                             identifierQuad[3], UndefinedId >>)]
           ELSE ds]
  /\ last' = Called("delete", d, quad, 0, FALSE)
  /\ UNCHANGED << termIdMaps, storeVars >>

\* delete(quad)
Delete(d, quad) ==
  /\ d \in Live
  /\ LET ds == datasets[d]
         identifierQuad == tryConvertToIdentifierQuad(MapOf(ds), quad)
     IN  datasets' = [datasets EXCEPT ![d] =
           IF identifierQuad # NullIdentifierQuad
           THEN [ensureHasModifiableForest(ds) EXCEPT !.forest.quads = ForestRemove(@, identifierQuad)]
           ELSE ds]
  /\ last' = Called("delete", d, quad, 0, FALSE)
  /\ UNCHANGED << termIdMaps, storeVars >>

\* has(quad)
Has(d, quad) ==
  /\ d \in Live
  /\ LET ds == datasets[d]
     IN  datasets' = [datasets EXCEPT ![d] =
           IF tryConvertToIdentifierQuad(MapOf(ds), quad) # NullIdentifierQuad
           THEN ensureHasForest(ds) ELSE ds]
  /\ last' = Called("has", d, quad, 0, FALSE)
  /\ UNCHANGED << termIdMaps, storeVars >>

\* a variant of deleteMatches that makes the forest modifiable before it looks the
\* terms of the pattern up
DeleteMatches_ensuresFirst(d, pattern) ==
  /\ d \in Live
  /\ datasets[d].klass = WasmTreeDataset
  /\ LET ds == datasets[d]
         matchResult == matchIdentifiers(MapOf(ds), pattern)
     IN  datasets' = [datasets EXCEPT ![d] =
           IF matchResult = NullIdentifierQuad THEN ensureHasModifiableForest(ds)
           ELSE [ensureHasModifiableForest(ds) EXCEPT
                   !.forest.quads = ForestDeleteMatches(@, matchResult)]]
  /\ last' = Called("deleteMatches", d, pattern, 0, FALSE)
  /\ UNCHANGED << termIdMaps, storeVars >>

\* deleteMatches(subject, predicate, object, graph)
DeleteMatches(d, pattern) ==
  /\ d \in Live
  /\ datasets[d].klass = WasmTreeDataset
  /\ LET ds == datasets[d]
         matchResult == matchIdentifiers(MapOf(ds), pattern)
     IN  datasets' = [datasets EXCEPT ![d] =
           IF matchResult = NullIdentifierQuad THEN ds
           ELSE [ensureHasModifiableForest(ds) EXCEPT
                   !.forest.quads = ForestDeleteMatches(@, matchResult)]]
  /\ last' = Called("deleteMatches", d, pattern, 0, FALSE)
  /\ UNCHANGED << termIdMaps, storeVars >>

\* countQuads(subject, predicate, object, graph)
CountQuads(d, pattern) ==
  /\ d \in Live
  /\ datasets[d].klass \in {WasmTreeDataset, AlwaysForestDataset}
  /\ LET ds == datasets[d]
     IN  datasets' = [datasets EXCEPT ![d] =
           IF ~ds.forest.defined /\ ~ds.identifierList.defined THEN ds ELSE ensureHasForest(ds)]
  /\ last' = Called("countQuads", d, pattern, 0, FALSE)
  /\ UNCHANGED << termIdMaps, storeVars >>

\* for (const quad of dataset), toArray(), forEach, every, some, reduce
Iterate(d) ==
  /\ d \in Live
  /\ datasets' = [datasets EXCEPT ![d] = asIdentifierList(@)]
  /\ last' = Called("iterate", d, NoArg, 0, FALSE)
  /\ UNCHANGED << termIdMaps, storeVars >>

\* ensureHasIndexFor(subject, predicate, object, graph)
EnsureHasIndexFor(d) ==
  /\ d \in Live
  /\ datasets' = [datasets EXCEPT ![d] = ensureHasForest(@)]
  /\ last' = Called("ensureHasIndexFor", d, NoArg, 0, FALSE)
  /\ UNCHANGED << termIdMaps, storeVars >>

\* free() that also empties the TermIdMap of the facade
Free_emptiesTermIdMap(d) ==
  /\ d \in Live
  /\ datasets' = [datasets EXCEPT ![d] = free(@)]
  /\ termIdMaps' = [termIdMaps EXCEPT ![datasets[d].termIdMap] = NewTermIdMap]
  /\ last' = Called("free", d, NoArg, 0, FALSE)
  /\ UNCHANGED storeVars

\* free()
Free(d) ==
  /\ d \in Live
  /\ datasets' = [datasets EXCEPT ![d] = free(@)]
  /\ last' = Called("free", d, NoArg, 0, FALSE)
  /\ UNCHANGED << termIdMaps, storeVars >>

\* ------------------------------------------------------------------------
\* Facades derived from a facade

\* the facade match builds when the pattern is unsatisfiable; newMap is the index
\* a TermIdMap constructed by the call gets
MatchNone(ds, newMap) ==
  CASE ds.klass = WasmTreeDataset ->
         Facade(WasmTreeDataset, ds.termIdMap, UndefinedList, UndefinedForest)
    [] ds.klass = AlwaysForestDataset ->
         Facade(AlwaysForestDataset, newMap, UndefinedList, DefinedForest(NewForest))
    [] ds.klass = DatasetWithIdentifierList ->
         Facade(DatasetWithIdentifierList, newMap, UndefinedList, UndefinedForest)
    [] ds.klass = DatasetWithSharedTermIdMap ->
         Facade(DatasetWithSharedTermIdMap, newMap, UndefinedList, DefinedForest(NewForest))

\* the TermIdMap the call constructs when the pattern is unsatisfiable
MatchNoneMap(ds) ==
  IF ds.klass = DatasetWithIdentifierList THEN duplicate(MapOf(ds), << >>) ELSE NewTermIdMap

\* the facade match builds from the identifier list of the matching quads
MatchSome(ds, identifierList, newMap) ==
  CASE ds.klass = WasmTreeDataset ->
         Facade(WasmTreeDataset, ds.termIdMap, DefinedList(identifierList), UndefinedForest)
    [] ds.klass = AlwaysForestDataset ->
         Facade(AlwaysForestDataset, newMap, UndefinedList,
                DefinedForest(fromIdentifierList(identifierList)))
    [] ds.klass = DatasetWithIdentifierList ->
         Facade(DatasetWithIdentifierList, newMap, DefinedList(identifierList), UndefinedForest)
    [] ds.klass = DatasetWithSharedTermIdMap ->
         Facade(DatasetWithSharedTermIdMap, ds.termIdMap, UndefinedList,
                DefinedForest(fromIdentifierList(identifierList)))

\* the classes whose derived facades get a duplicate of the TermIdMap
Duplicates(klass) == klass \in {AlwaysForestDataset, DatasetWithIdentifierList}

\* match(subject, predicate, object, graph)
Match(d, pattern, limit) ==
  /\ d \in Live
  /\ LET ds == datasets[d]
         r == Fresh
         newMap == Len(termIdMaps) + 1
         matchResult == matchIdentifiers(MapOf(ds), pattern)
         source == ensureHasForest(ds)
         identifierList == get_all(source.forest.quads, matchResult)
     IN  IF matchResult = NullIdentifierQuad
         THEN /\ Len(datasets) < limit
              /\ datasets' = Append(datasets, MatchNone(ds, newMap))
              /\ termIdMaps' = IF ds.klass = WasmTreeDataset THEN termIdMaps
                               ELSE Append(termIdMaps, MatchNoneMap(ds))
              /\ last' = Called("match", d, pattern, r, FALSE)
         ELSE IF Duplicates(ds.klass) /\ duplicateThrows(MapOf(ds), identifierList)
         THEN /\ datasets' = [datasets EXCEPT ![d] = source]
              /\ termIdMaps' = termIdMaps
              /\ last' = Called("match", d, pattern, 0, TRUE)
         ELSE /\ Len(datasets) < limit
              /\ datasets' = Append([datasets EXCEPT ![d] = source],
                                    MatchSome(ds, identifierList, newMap))
              /\ termIdMaps' = IF Duplicates(ds.klass)
                               THEN Append(termIdMaps, duplicate(MapOf(ds), identifierList))
                               ELSE termIdMaps
              /\ last' = Called("match", d, pattern, r, FALSE)
  /\ UNCHANGED storeVars

\* match: whether the call throws (the duplicate of the TermIdMap meets an
\* identifier without term)
matchThrows(ds, pattern) ==
  LET matchResult == matchIdentifiers(MapOf(ds), pattern)
  IN  /\ matchResult # NullIdentifierQuad
      /\ Duplicates(ds.klass)
      /\ duplicateThrows(MapOf(ds), get_all(ensureHasForest(ds).forest.quads, matchResult))

\* match: the identifier list of the facade it returns
matchRet(ds, pattern) ==
  LET matchResult == matchIdentifiers(MapOf(ds), pattern)
  IN  IF matchResult = NullIdentifierQuad THEN << >>
      ELSE get_all(ensureHasForest(ds).forest.quads, matchResult)

\* the functions the callers pass to filter
FilterIteratees == {"inDefaultGraph", "objectIsLiteral"}

CallFilterIteratee(f, quad) ==
  CASE f = "inDefaultGraph"  -> quad.graph = DefaultGraph
    [] f = "objectIsLiteral" -> quad.object.termType = "Literal"

\* the functions the callers pass to map
MapIteratees == {"toGraphG", "toQ1"}

CallMapIteratee(f, quad) ==
  CASE f = "toGraphG" -> QuadOf(quad.subject, quad.predicate, quad.object, TG)
    [] f = "toQ1"     -> Q1

\* a variant of filterInUInt32Array that does not reduce the array it allocated:
\* the places of the quads the iteratee refuses stay, filled with zeros, at the end
RECURSIVE filterInUInt32Array_notReduced(_, _, _, _)
filterInUInt32Array_notReduced(map, data, index, f) ==
  IF index >= Len(data) THEN << >>
  ELSE IF CallFilterIteratee(f, getQuad(map, QuadAt(data, index)))
       THEN QuadAt(data, index) \o filterInUInt32Array_notReduced(map, data, index + 4, f)
       ELSE filterInUInt32Array_notReduced(map, data, index + 4, f) \o << 0, 0, 0, 0 >>

\* filterInUInt32Array: the identifier quads, from position index on, whose term quad
\* the iteratee accepts
RECURSIVE filterInUInt32Array(_, _, _, _)
filterInUInt32Array(map, data, index, f) ==
  IF index >= Len(data) THEN << >>
  ELSE (IF CallFilterIteratee(f, getQuad(map, QuadAt(data, index)))
        THEN QuadAt(data, index) ELSE << >>)
       \o filterInUInt32Array(map, data, index + 4, f)

\* filter(quadFilterIteratee)
Filter(d, f, limit) ==
  /\ d \in Live
  /\ datasets[d].klass = WasmTreeDataset
  /\ Len(datasets) < limit
  /\ LET ds == datasets[d]
         resultingArray == filterInUInt32Array(MapOf(ds), asIdentifierListRet(ds), 0, f)
     IN  datasets' = Append([datasets EXCEPT ![d] = asIdentifierList(ds)],
           Facade(WasmTreeDataset, ds.termIdMap, DefinedList(resultingArray), UndefinedForest))
  /\ last' = Called("filter", d, f, Fresh, FALSE)
  /\ UNCHANGED << termIdMaps, storeVars >>

\* mapInUInt32Array: the TermIdMap after the images of the quads from position index
\* on have been given identifiers
RECURSIVE mapInUInt32ArrayMap(_, _, _, _)
mapInUInt32ArrayMap(map, data, index, f) ==
  IF index >= Len(data) THEN map
  ELSE mapInUInt32ArrayMap(
         convertToIdentifierQuad(map, CallMapIteratee(f, getQuad(map, QuadAt(data, index)))),
         data, index + 4, f)

\* mapInUInt32Array: the identifier quads of the images, duplicates included
RECURSIVE mapInUInt32Array(_, _, _, _)
mapInUInt32Array(map, data, index, f) ==
  IF index >= Len(data) THEN << >>
  ELSE LET mappedQuad == CallMapIteratee(f, getQuad(map, QuadAt(data, index)))
       IN  convertToIdentifierQuadRet(map, mappedQuad)
           \o mapInUInt32Array(convertToIdentifierQuad(map, mappedQuad), data, index + 4, f)

\* a variant of map that returns the facade built from the array of the images as
\* it is, as filter does
Map_keepsArray(d, f, limit) ==
  /\ d \in Live
  /\ datasets[d].klass = WasmTreeDataset
  /\ Len(datasets) < limit
  /\ LET ds == datasets[d]
         data == asIdentifierListRet(ds)
         resultingArray == mapInUInt32Array(MapOf(ds), data, 0, f)
     IN  /\ termIdMaps' = [termIdMaps EXCEPT
              ![ds.termIdMap] = mapInUInt32ArrayMap(MapOf(ds), data, 0, f)]
         /\ datasets' = Append([datasets EXCEPT ![d] = asIdentifierList(ds)],
              Facade(WasmTreeDataset, ds.termIdMap, DefinedList(resultingArray),
                     UndefinedForest))
  /\ last' = Called("map", d, f, Fresh, FALSE)
  /\ UNCHANGED storeVars

\* map(quadMapIteratee)
Map(d, f, limit) ==
  /\ d \in Live
  /\ datasets[d].klass = WasmTreeDataset
  /\ Len(datasets) < limit
  /\ LET ds == datasets[d]
         data == asIdentifierListRet(ds)
         resultingArray == mapInUInt32Array(MapOf(ds), data, 0, f)
     IN  /\ termIdMaps' = [termIdMaps EXCEPT
              ![ds.termIdMap] = mapInUInt32ArrayMap(MapOf(ds), data, 0, f)]
         /\ datasets' = Append([datasets EXCEPT ![d] = asIdentifierList(ds)],
              ensureHasModifiableForest(
                Facade(WasmTreeDataset, ds.termIdMap, DefinedList(resultingArray),
                       UndefinedForest)))
  /\ last' = Called("map", d, f, Fresh, FALSE)
  /\ UNCHANGED storeVars

\* ------------------------------------------------------------------------
\* Operations with another dataset

SIMILARITY_NONE == 0
SIMILARITY_SAME_CLASS == 1
SIMILARITY_SAME_TERMIDMAP == 2

\* what is passed as the other dataset: a facade, or a plain array of quads
OtherDataset(e) == [kind |-> "dataset", d |-> e, quads |-> << >>]
OtherArray(quads) == [kind |-> "array", d |-> 0, quads |-> quads]

RECURSIVE ArraysOfLength(_)
ArraysOfLength(n) ==
  IF n = 0 THEN { << >> }
  ELSE { Append(a, q) : a \in ArraysOfLength(n - 1), q \in InputQuads }

InputArrays == UNION { ArraysOfLength(n) : n \in 0..MaxArrayLen }

Others == { OtherDataset(e) : e \in Live } \cup { OtherArray(a) : a \in InputArrays }

\* a variant of _get_degree_of_similarity that does not compare the TermIdMaps
_get_degree_of_similarity_ofClass(ds, other) ==
  IF other.kind # "dataset" \/ datasets[other.d].klass # WasmTreeDataset
  THEN SIMILARITY_NONE
  ELSE SIMILARITY_SAME_TERMIDMAP

_get_degree_of_similarity(ds, other) ==
  IF other.kind # "dataset" \/ datasets[other.d].klass # WasmTreeDataset
  THEN SIMILARITY_NONE
  ELSE IF ds.termIdMap # datasets[other.d].termIdMap
       THEN SIMILARITY_SAME_CLASS
       ELSE SIMILARITY_SAME_TERMIDMAP

\* the quads an iteration of other yields (null for a quad that cannot be decoded);
\* heap is the facades at the time of the iteration
OtherQuads(heap, other) ==
  IF other.kind = "array" THEN other.quads
  ELSE IteratorQuads(MapOf(heap[other.d]), asIdentifierListRet(heap[other.d]))

\* 'length' in dataset ? dataset.length : dataset.size
OtherSize(heap, other) ==
  IF other.kind = "array" THEN Len(other.quads) ELSE size(heap[other.d])

\* the facades after other has been iterated
Iterated(heap, other) ==
  IF other.kind = "array" THEN heap
  ELSE [heap EXCEPT ![other.d] = asIdentifierList(@)]

\* buildIdentifierListForIntersection / buildIdentifierListForEquality throw on a
\* quad that is null
buildIdentifierListThrows(quads) == \E k \in 1..Len(quads) : quads[k] = NullQuad

\* buildIdentifierListForIntersection: the identifier quads of the quads whose terms
\* are all known
RECURSIVE buildIdentifierListForIntersection(_, _, _)
buildIdentifierListForIntersection(map, quads, k) ==
  IF k > Len(quads) THEN << >>
  ELSE tryConvertToIdentifierQuad(map, quads[k])
       \o buildIdentifierListForIntersection(map, quads, k + 1)

\* array[startingPosition .. startingPosition + 3] = identifierQuad on a Uint32Array:
\* a write past the end of the array is ignored
WriteQuad(array, startingPosition, identifierQuad) ==
  [k \in 1..Len(array) |->
     IF k > startingPosition /\ k <= startingPosition + 4
     THEN identifierQuad[k - startingPosition] ELSE array[k]]

\* buildIdentifierListForUnion: the loop from the k-th quad on; it stops where a quad
\* is null (the call then throws)
RECURSIVE buildIdentifierListForUnionLoop(_, _, _, _)
buildIdentifierListForUnionLoop(map, array, quads, k) ==
  IF k > Len(quads) THEN [map |-> map, array |-> array, threw |-> FALSE]
  ELSE IF quads[k] = NullQuad THEN [map |-> map, array |-> array, threw |-> TRUE]
  ELSE buildIdentifierListForUnionLoop(
         convertToIdentifierQuad(map, quads[k]),
         WriteQuad(array, 4 * (k - 1), convertToIdentifierQuadRet(map, quads[k])),
         quads, k + 1)

\* buildIdentifierListForUnion: a Uint32Array of size * 4 zeros filled with the
\* identifiers of the quads, new terms being given identifiers
buildIdentifierListForUnion(map, quads, n) ==
  buildIdentifierListForUnionLoop(map, [k \in 1..(4 * n) |-> 0], quads, 1)

SetOperations == {"intersection", "difference", "union"}

\* the forest of the result when both facades share their TermIdMap
ForestOperation(op, lhs, rhs) ==
  CASE op = "intersection" -> ForestIntersect(lhs, rhs)
    [] op = "difference"   -> ForestDifference(lhs, rhs)
    [] op = "union"        -> ForestUnion(lhs, rhs)

\* the forest of the result when other is consumed as a sequence of quads
IdentifierListOperation(op, lhs, rhsSlice) ==
  CASE op = "intersection" -> intersectIdentifierList(lhs, rhsSlice)
    [] op = "difference"   -> differenceIdentifierList(lhs, rhsSlice)
    [] op = "union"        -> unionIdentifierList(lhs, rhsSlice)

\* intersection(other), difference(other), union(other) through
\* _operationWithAnotherDataset
SetOperation(op, d, other, limit) ==
  /\ d \in Live
  /\ datasets[d].klass = WasmTreeDataset
  /\ LET r == Fresh
         heap1 == [datasets EXCEPT ![d] = ensureHasForest(@)]
         lhs == heap1[d]
         map == MapOf(lhs)
         result(forest) == Facade(WasmTreeDataset, lhs.termIdMap, UndefinedList,
                                  DefinedForest(forest))
     IN  IF _get_degree_of_similarity(lhs, other) = SIMILARITY_SAME_TERMIDMAP
         THEN LET heap2 == [heap1 EXCEPT ![other.d] = ensureHasForest(@)]
              IN  /\ Len(datasets) < limit
                  /\ datasets' = Append(heap2,
                       result(ForestOperation(op, heap2[d].forest.quads,
                                              heap2[other.d].forest.quads)))
                  /\ termIdMaps' = termIdMaps
                  /\ last' = Called(op, d, other, r, FALSE)
         ELSE LET quads == OtherQuads(heap1, other)
                  heap2 == Iterated(heap1, other)
                  built == buildIdentifierListForUnion(map, quads, OtherSize(heap1, other))
              IN  IF op = "union"
                  THEN /\ built.threw \/ Len(datasets) < limit
                       /\ termIdMaps' = [termIdMaps EXCEPT ![lhs.termIdMap] = built.map]
                       /\ datasets' = IF built.threw THEN heap2
                            ELSE Append(heap2,
                                   result(unionIdentifierList(lhs.forest.quads, built.array)))
                       /\ last' = Called(op, d, other, IF built.threw THEN 0 ELSE r,
                                         built.threw)
                  ELSE /\ buildIdentifierListThrows(quads) \/ Len(datasets) < limit
                       /\ termIdMaps' = termIdMaps
                       /\ datasets' = IF buildIdentifierListThrows(quads) THEN heap2
                            ELSE Append(heap2,
                                   result(IdentifierListOperation(op, lhs.forest.quads,
                                     buildIdentifierListForIntersection(map, quads, 1))))
                       /\ last' = Called(op, d, other,
                                         IF buildIdentifierListThrows(quads) THEN 0 ELSE r,
                                         buildIdentifierListThrows(quads))
  /\ UNCHANGED storeVars

\* intersection(other), difference(other), union(other): whether the call throws,
\* and the quads of the facade it returns as its iteration yields them
SetOperationRet(op, d, other) ==
  LET heap1 == [datasets EXCEPT ![d] = ensureHasForest(@)]
      lhs == heap1[d]
      map == MapOf(lhs)
      decoded(m, forest) == { getQuad(m, identifierQuad) : identifierQuad \in forest }
  IN  IF _get_degree_of_similarity(lhs, other) = SIMILARITY_SAME_TERMIDMAP
      THEN LET heap2 == [heap1 EXCEPT ![other.d] = ensureHasForest(@)]
           IN  [threw |-> FALSE,
                quads |-> decoded(map, ForestOperation(op, heap2[d].forest.quads,
                                                       heap2[other.d].forest.quads))]
      ELSE LET quads == OtherQuads(heap1, other)
               built == buildIdentifierListForUnion(map, quads, OtherSize(heap1, other))
           IN  IF op = "union"
               THEN [threw |-> built.threw,
                     quads |-> IF built.threw THEN {}
                               ELSE decoded(built.map,
                                            unionIdentifierList(lhs.forest.quads, built.array))]
               ELSE [threw |-> buildIdentifierListThrows(quads),
                     quads |-> IF buildIdentifierListThrows(quads) THEN {}
                               ELSE decoded(map, IdentifierListOperation(op, lhs.forest.quads,
                                       buildIdentifierListForIntersection(map, quads, 1)))]

\* what addAll may be handed that is not an iterable of quads: a value that cannot
\* be iterated, and arrays with an element that is not a quad
NotIterable == [kind |-> "notIterable", d |-> 0, quads |-> << >>]

MalformedInputs ==
  { NotIterable, OtherArray(<< NullQuad >>), OtherArray(<< Q2, NullQuad >>) }

\* addAll(other); 'length' in other and the for ... of loop throw when other is
\* not iterable
AddAll(d, other) ==
  /\ d \in Live
  /\ datasets[d].klass = WasmTreeDataset
  /\ LET heap1 == [datasets EXCEPT ![d] = ensureHasModifiableForest(@)]
         quads == OtherQuads(heap1, other)
         heap2 == Iterated(heap1, other)
         built == buildIdentifierListForUnion(MapOf(heap1[d]), quads, OtherSize(heap1, other))
     IN  IF other.kind = "notIterable"
         THEN /\ termIdMaps' = termIdMaps
              /\ datasets' = heap1
              /\ last' = Called("addAll", d, other, 0, TRUE)
         ELSE /\ termIdMaps' = [termIdMaps EXCEPT ![heap1[d].termIdMap] = built.map]
              /\ datasets' = IF built.threw THEN heap2
                   ELSE [heap2 EXCEPT ![d].forest.quads =
                           insertFromIdentifierList(@, built.array)]
              /\ last' = Called("addAll", d, other, 0, built.threw)
  /\ UNCHANGED storeVars

\* what buildIdentifierListForEquality does with the quads from the k-th on
NoIdentifierList == [kind |-> "null", array |-> << >>]
ThrownIdentifierList == [kind |-> "threw", array |-> << >>]
BuiltIdentifierList(array) == [kind |-> "list", array |-> array]

\* buildIdentifierListForEquality: null at the first quad with an unknown term; it
\* throws at a quad that is null; else the identifiers of the quads
RECURSIVE buildIdentifierListForEquality(_, _, _)
buildIdentifierListForEquality(map, quads, k) ==
  IF k > Len(quads) THEN BuiltIdentifierList(<< >>)
  ELSE IF quads[k] = NullQuad THEN ThrownIdentifierList
  ELSE IF tryConvertToIdentifierQuad(map, quads[k]) = NullIdentifierQuad THEN NoIdentifierList
  ELSE LET rest == buildIdentifierListForEquality(map, quads, k + 1)
       IN  IF rest.kind # "list" THEN rest
           ELSE BuiltIdentifierList(tryConvertToIdentifierQuad(map, quads[k]) \o rest.array)

\* equals(other): what the call answers ("true", "false") or "threw"
equalsRet(d, other) ==
  LET heap1 == [datasets EXCEPT ![d] = ensureHasForest(@)]
      lhs == heap1[d]
  IN  IF _get_degree_of_similarity(lhs, other) = SIMILARITY_SAME_TERMIDMAP
      THEN LET heap2 == [heap1 EXCEPT ![other.d] = ensureHasForest(@)]
           IN  IF has_same_elements(heap2[d].forest.quads, heap2[other.d].forest.quads)
               THEN "true" ELSE "false"
      ELSE LET rhsSlice == buildIdentifierListForEquality(MapOf(lhs), OtherQuads(heap1, other), 1)
           IN  IF rhsSlice.kind = "threw" THEN "threw"
               ELSE IF rhsSlice.kind = "null" THEN "false"
               ELSE IF equalsIdentifierList(lhs.forest.quads, rhsSlice.array)
                    THEN "true" ELSE "false"

\* a variant of equals that gives identifiers to the terms of other, as union does
Equals_interning(d, other) ==
  /\ d \in Live
  /\ datasets[d].klass = WasmTreeDataset
  /\ LET heap1 == [datasets EXCEPT ![d] = ensureHasForest(@)]
         built == buildIdentifierListForUnion(MapOf(heap1[d]), OtherQuads(heap1, other),
                                              OtherSize(heap1, other))
     IN  IF _get_degree_of_similarity(heap1[d], other) = SIMILARITY_SAME_TERMIDMAP
         THEN /\ datasets' = [heap1 EXCEPT ![other.d] = ensureHasForest(@)]
              /\ termIdMaps' = termIdMaps
              /\ last' = Called("equals", d, other, 0, FALSE)
         ELSE /\ datasets' = Iterated(heap1, other)
              /\ termIdMaps' = [termIdMaps EXCEPT ![heap1[d].termIdMap] = built.map]
              /\ last' = Called("equals", d, other, 0, built.threw)
  /\ UNCHANGED storeVars

\* equals(other) through _operationWithAnotherDataset
Equals(d, other) ==
  /\ d \in Live
  /\ datasets[d].klass = WasmTreeDataset
  /\ LET heap1 == [datasets EXCEPT ![d] = ensureHasForest(@)]
     IN  datasets' =
           IF _get_degree_of_similarity(heap1[d], other) = SIMILARITY_SAME_TERMIDMAP
           THEN [heap1 EXCEPT ![other.d] = ensureHasForest(@)]
           ELSE Iterated(heap1, other)
  /\ last' = Called("equals", d, other, 0, equalsRet(d, other) = "threw")
  /\ UNCHANGED << termIdMaps, storeVars >>

\* contains(other): what the call answers ("true", "false") or "threw"
containsRet(d, other) ==
  LET heap1 == [datasets EXCEPT ![d] = ensureHasForest(@)]
      lhs == heap1[d]
  IN  IF _get_degree_of_similarity(lhs, other) = SIMILARITY_SAME_TERMIDMAP
      THEN LET heap2 == [heap1 EXCEPT ![other.d] = ensureHasForest(@)]
           IN  IF ForestContains(heap2[d].forest.quads, heap2[other.d].forest.quads)
               THEN "true" ELSE "false"
      ELSE LET rhsSlice == buildIdentifierListForEquality(MapOf(lhs), OtherQuads(heap1, other), 1)
           IN  IF rhsSlice.kind = "threw" THEN "threw"
               ELSE IF rhsSlice.kind = "null" THEN "false"
               ELSE IF containsIdentifierList(lhs.forest.quads, rhsSlice.array)
                    THEN "true" ELSE "false"

\* contains(other) through _operationWithAnotherDataset
Contains(d, other) ==
  /\ d \in Live
  /\ datasets[d].klass = WasmTreeDataset
  /\ LET heap1 == [datasets EXCEPT ![d] = ensureHasForest(@)]
     IN  datasets' =
           IF _get_degree_of_similarity(heap1[d], other) = SIMILARITY_SAME_TERMIDMAP
           THEN [heap1 EXCEPT ![other.d] = ensureHasForest(@)]
           ELSE Iterated(heap1, other)
  /\ last' = Called("contains", d, other, 0, containsRet(d, other) = "threw")
  /\ UNCHANGED << termIdMaps, storeVars >>

\* ------------------------------------------------------------------------
\* Specification of the dataset facades: one facade is constructed, the others
\* are derived from it

Init ==
  /\ datasets = << >>
  /\ termIdMaps = << >>
  /\ last = Called("none", 0, NoArg, 0, FALSE)
  /\ store = [forest |-> DefinedForest(NewForest), termIdMap |-> NewTermIdMap]
  /\ timers = << >>
  /\ emitters = << >>
  /\ slast = [op |-> "none", call |-> 0,
              before |-> [forest |-> DefinedForest(NewForest), termIdMap |-> NewTermIdMap]]
  /\ streams = << >>
  /\ quadForest = QuadForestNew(1)
  /\ matches = << >>
  /\ iterators = << >>

Next ==
  \/ \E klass \in Classes : NewDataset(klass, 1)
  \/ \E d \in Live, quad \in InputQuads : Add(d, quad)
  \/ \E d \in Live, quad \in InputQuads : Delete(d, quad)
  \/ \E d \in Live, quad \in InputQuads : Has(d, quad)
  \/ \E d \in Live, pattern \in InputPatterns : Match(d, pattern, MaxDatasets)
  \/ \E d \in Live, pattern \in InputPatterns : DeleteMatches(d, pattern)
  \/ \E d \in Live, pattern \in InputPatterns : CountQuads(d, pattern)
  \/ \E d \in Live : Iterate(d)
  \/ \E d \in Live : EnsureHasIndexFor(d)
  \/ \E d \in Live : Free(d)
  \/ \E d \in Live, f \in FilterIteratees : Filter(d, f, MaxDatasets)
  \/ \E d \in Live, f \in MapIteratees : Map(d, f, MaxDatasets)
  \/ \E d \in Live, op \in SetOperations, other \in Others :
       SetOperation(op, d, other, MaxDatasets)
  \/ \E d \in Live, other \in Others : AddAll(d, other)

Spec == Init /\ [][Next]_vars

\* Specification of the set algebra: up to MaxRoots facades are constructed, so
\* that the other dataset may be of another class or have another TermIdMap

NextAlgebra ==
  \/ \E klass \in Classes : NewDataset(klass, MaxRoots)
  \/ \E d \in Live, quad \in InputQuads : Add(d, quad)
  \/ \E d \in Live, pattern \in InputPatterns : Match(d, pattern, MaxOperands)
  \/ \E d \in Live, op \in SetOperations, other \in Others :
       SetOperation(op, d, other, MaxOperands)

SpecAlgebra == Init /\ [][NextAlgebra]_vars

\* Specification of the equality: the facades that are compared are constructed
\* apart or derived from one another

NextEquality ==
  \/ \E klass \in Classes : NewDataset(klass, MaxRoots)
  \/ \E d \in Live, quad \in InputQuads : Add(d, quad)
  \/ \E d \in Live, pattern \in InputPatterns : Match(d, pattern, MaxOperands)
  \/ \E d \in Live, other \in Others : Equals(d, other)

SpecEquality == Init /\ [][NextEquality]_vars

\* Specification of the containment: the facades that are compared are constructed
\* apart or derived from one another

NextContainment ==
  \/ \E klass \in Classes : NewDataset(klass, MaxRoots)
  \/ \E d \in Live, quad \in InputQuads : Add(d, quad)
  \/ \E d \in Live, pattern \in InputPatterns : Match(d, pattern, MaxOperands)
  \/ \E d \in Live, other \in Others : Contains(d, other)

SpecContainment == Init /\ [][NextContainment]_vars

\* Specification of addAll: the facade and what is added to it are constructed
\* apart or derived from one another

NextAddAll ==
  \/ \E klass \in Classes : NewDataset(klass, MaxRoots)
  \/ \E d \in Live, quad \in InputQuads : Add(d, quad)
  \/ \E d \in Live, pattern \in InputPatterns : Match(d, pattern, MaxOperands)
  \/ \E d \in Live, other \in Others : AddAll(d, other)

SpecAddAll == Init /\ [][NextAddAll]_vars

\* Specification of the failures of addAll: one facade is constructed, the others
\* are derived from it, and addAll is handed well formed and malformed inputs

NextMalformed ==
  \/ NewDataset(WasmTreeDataset, 1)
  \/ \E d \in Live, quad \in InputQuads : Add(d, quad)
  \/ \E d \in Live, pattern \in InputPatterns : Match(d, pattern, MaxDatasets)
  \/ \E d \in Live, other \in Others \cup MalformedInputs : AddAll(d, other)

SpecMalformed == Init /\ [][NextMalformed]_vars

\* Specification of the operations with another dataset: the facades are constructed
\* apart, or are the results of set operations

NextOperations ==
  \/ \E klass \in Classes : NewDataset(klass, MaxRoots)
  \/ \E d \in Live, quad \in InputQuads : Add(d, quad)
  \/ \E d \in Live, op \in SetOperations, other \in Others :
       SetOperation(op, d, other, MaxOperands)
  \/ \E d \in Live, other \in Others : Contains(d, other)
  \/ \E d \in Live, other \in Others : Equals(d, other)

SpecOperations == Init /\ [][NextOperations]_vars

\* ------------------------------------------------------------------------
\* QuadForest: its ordered sets and the choice of the order that answers a pattern

\* construction of a forest around its anchor
forestNew(anchor) ==
  /\ quadForest' = QuadForestNew(anchor)
  /\ UNCHANGED << datasetVars, store, timers, emitters, slast, streams, matches, iterators >>

\* insert(q): applied to every materialized set
forestInsert(identifierQuad) ==
  /\ quadForest' = Answered(
       inEveryMaterializedSet(quadForest, LAMBDA set : ForestAdd(set, identifierQuad)),
       "insert", {}, quadForest.anchor, FALSE)
  /\ UNCHANGED << datasetVars, store, timers, emitters, slast, streams, matches, iterators >>

\* remove(q): applied to every materialized set
forestRemove(identifierQuad) ==
  /\ quadForest' = Answered(
       inEveryMaterializedSet(quadForest, LAMBDA set : ForestRemove(set, identifierQuad)),
       "remove", {}, quadForest.anchor, FALSE)
  /\ UNCHANGED << datasetVars, store, timers, emitters, slast, streams, matches, iterators >>

\* bulk_load(id_sequence): insert all
bulk_load(identifierList) ==
  /\ quadForest' = Answered(
       inEveryMaterializedSet(quadForest,
         LAMBDA set : insertFromIdentifierList(set, identifierList)),
       "bulk_load", {}, quadForest.anchor, FALSE)
  /\ UNCHANGED << datasetVars, store, timers, emitters, slast, streams, matches, iterators >>

\* ensure_index(B): if no materialized set has B as order-prefix, materialize one
\* whose prefix matches B
ensure_index(B) ==
  /\ selectOrder(quadForest.materialized, B) # 0
  /\ quadForest' = Answered(
       materialize(quadForest, selectOrder(quadForest.materialized, B)),
       "ensure_index", B, selectOrder(quadForest.materialized, B),
       selectOrder(quadForest.materialized, B) \notin quadForest.materialized)
  /\ UNCHANGED << datasetVars, store, timers, emitters, slast, streams, matches, iterators >>

\* match(pattern): select order, ensure_index, then range-scan
forestMatch(B) ==
  /\ selectOrder(quadForest.materialized, B) # 0
  /\ quadForest' = Answered(
       materialize(quadForest, selectOrder(quadForest.materialized, B)),
       "match", B, selectOrder(quadForest.materialized, B),
       selectOrder(quadForest.materialized, B) \notin quadForest.materialized)
  /\ UNCHANGED << datasetVars, store, timers, emitters, slast, streams, matches, iterators >>

\* delete_matches(pattern): compute the match set once, then remove it from every
\* materialized set
delete_matches(B, identifierQuad) ==
  /\ quadForest' = Answered(
       inEveryMaterializedSet(quadForest,
         LAMBDA set : set \ ForestMatching(Members(quadForest), PatternFor(B, identifierQuad))),
       "delete_matches", B, quadForest.anchor, FALSE)
  /\ UNCHANGED << datasetVars, store, timers, emitters, slast, streams, matches, iterators >>

NextForest ==
  \/ \E anchor \in 1..Len(Orders) : forestNew(anchor)
  \/ \E identifierQuad \in ForestQuads : forestInsert(identifierQuad)
  \/ \E identifierQuad \in ForestQuads : forestRemove(identifierQuad)
  \/ \E quads \in SUBSET ForestQuads : bulk_load(SortedList(quads))
  \/ \E B \in BoundSets : ensure_index(B)
  \/ \E B \in BoundSets : forestMatch(B)
  \/ \E B \in BoundSets, identifierQuad \in ForestQuads : delete_matches(B, identifierQuad)

SpecForest == Init /\ [][NextForest]_vars

\* ------------------------------------------------------------------------
\* Traversal of a facade, one quad at a time

\* a WasmTreeDatasetIterator: the facade, its TermIdMap, the identifier list the
\* facade returned and the index in it; the quads next() has returned, the quad
\* object it returned last, whether it has reported done; and the quads the facade
\* had and its size when the iterator was built
NewIterator(d, ds) ==
  [d |-> d, termIdMap |-> ds.termIdMap, data |-> asIdentifierListRet(ds), index |-> 0,
   yielded |-> << >>, value |-> NullQuad, done |-> FALSE,
   had |-> { quad \in InputQuads : has(ds, quad) }, size |-> size(ds)]

\* the facade as its holder sees it between two quads of a traversal
iterator(d) ==
  /\ d \in Live
  /\ Len(iterators) < MaxIterators
  /\ iterators' = Append(iterators, NewIterator(d, datasets[d]))
  /\ datasets' = [datasets EXCEPT ![d] = asIdentifierList(@)]
  /\ last' = Called("iterator", d, NoArg, Len(iterators) + 1, FALSE)
  /\ UNCHANGED << termIdMaps, store, timers, emitters, slast, streams, quadForest, matches >>

\* next() of an iterator that reads the list of the facade at each call
next_live(k) ==
  /\ k \in 1..Len(iterators)
  /\ LET it == iterators[k]
         data == asIdentifierListRet(datasets[it.d])
     IN  /\ iterators' = [iterators EXCEPT ![k] =
              IF it.index >= Len(data)
              THEN [it EXCEPT !.done = TRUE, !.value = NullQuad]
              ELSE [it EXCEPT
                      !.yielded = Append(@, getQuad(termIdMaps[it.termIdMap],
                                                    QuadAt(data, it.index))),
                      !.value = getQuad(termIdMaps[it.termIdMap], QuadAt(data, it.index)),
                      !.index = @ + 4]]
         /\ last' = Called("next", it.d, NoArg, k, FALSE)
  /\ UNCHANGED << datasets, termIdMaps, store, timers, emitters, slast, streams,
                  quadForest, matches >>

\* next(): done at the end of the list, else the quad of the four identifiers at
\* the index, decoded by the TermIdMap as it is at the call
next(k) ==
  /\ k \in 1..Len(iterators)
  /\ LET it == iterators[k]
     IN  /\ iterators' = [iterators EXCEPT ![k] =
              IF it.index >= Len(it.data)
              THEN [it EXCEPT !.done = TRUE, !.value = NullQuad]
              ELSE [it EXCEPT
                      !.yielded = Append(@, getQuad(termIdMaps[it.termIdMap],
                                                    QuadAt(it.data, it.index))),
                      !.value = getQuad(termIdMaps[it.termIdMap], QuadAt(it.data, it.index)),
                      !.index = @ + 4]]
         /\ last' = Called("next", it.d, NoArg, k, FALSE)
  /\ UNCHANGED << datasets, termIdMaps, store, timers, emitters, slast, streams,
                  quadForest, matches >>

\* the loop body replaces a field of the quad object next() returned: getQuad
\* built the object for this call
replaceField(k) ==
  /\ k \in 1..Len(iterators)
  /\ iterators[k].value \notin { NullQuad, [iterators[k].value EXCEPT !.subject = TL] }
  /\ iterators' = [iterators EXCEPT ![k].value.subject = TL]
  /\ last' = Called("replaceField", iterators[k].d, NoArg, k, FALSE)
  /\ UNCHANGED << datasets, termIdMaps, store, timers, emitters, slast, streams,
                  quadForest, matches >>

\* Specification of the traversals: the loop body adds to, deletes from and frees
\* the facade between two calls of next
NextTraversal ==
  \/ \E klass \in Classes : NewDataset(klass, 1)
  \/ \E d \in Live, quad \in InputQuads : Add(d, quad)
  \/ \E d \in Live, quad \in InputQuads : Delete(d, quad)
  \/ \E d \in Live : Free(d)
  \/ \E d \in Live, pattern \in InputPatterns : Match(d, pattern, MaxDatasets)
  \/ \E d \in Live : iterator(d)
  \/ \E k \in 1..Len(iterators) : next(k)
  \/ \E k \in 1..Len(iterators) : replaceField(k)

SpecTraversal == Init /\ [][NextTraversal]_vars

\* a loop over an iterator calls next until it reports done
SpecTraversalFair ==
  SpecTraversal /\ \A k \in 1..MaxIterators : WF_vars(next(k))

\* ------------------------------------------------------------------------
\* WasmTreeStore

\* an EventEmitter returned by removeMatches: the pattern of the call, whether the
\* caller has attached its 'end' listener, how many times 'end' was emitted and how
\* many times the listener was called
NewEmitter(pattern) ==
  [pattern |-> pattern, listening |-> FALSE, emitted |-> 0, received |-> 0,
   turnOver |-> FALSE]

\* eventEmitter.emit('end'): the listeners attached at that time are called
emit(emitter) ==
  [emitter EXCEPT !.emitted = @ + 1,
                  !.received = IF emitter.listening THEN @ + 1 ELSE @]

\* the term quads the store holds
StoreQuads(st) ==
  { getQuad(st.termIdMap, identifierQuad) : identifierQuad \in st.forest.quads }

\* the record of a step on the store: its name, the removeMatches call it belongs
\* to (0: none) and the store before the step
Stepped(op, call) == [op |-> op, call |-> call, before |-> store]

\* the streams that have not ended see another writer of the store
Interfered(ss) ==
  [k \in DOMAIN ss |-> IF ss[k].ended THEN ss[k] ELSE [ss[k] EXCEPT !.alone = FALSE]]

\* _ensureHasForest of the store
storeEnsureHasForest(st) ==
  IF st.forest.defined THEN st ELSE [st EXCEPT !.forest = DefinedForest(NewForest)]

\* match of the store: the identifier list the returned stream reads
storeMatch(st, pattern) ==
  IF ~st.forest.defined THEN << >>
  ELSE LET matchResult == matchIdentifiers(st.termIdMap, pattern)
       IN  IF matchResult = NullIdentifierQuad THEN << >>
           ELSE get_all(st.forest.quads, matchResult)

\* countQuads of the store: what it returns
storeCountQuads(st, pattern) ==
  IF ~st.forest.defined THEN 0
  ELSE LET matchResult == matchIdentifiers(st.termIdMap, pattern)
       IN  IF matchResult = NullIdentifierQuad THEN 0
           ELSE matchCount(st.forest.quads, matchResult)

\* addQuad(quad), add(quad)
addQuad(quad) ==
  /\ LET st == storeEnsureHasForest(store)
         identifierQuad == convertToIdentifierQuadRet(st.termIdMap, quad)
     IN  store' = [st EXCEPT !.termIdMap = convertToIdentifierQuad(@, quad),
                             !.forest.quads = ForestAdd(@, identifierQuad)]
  /\ slast' = Stepped("addQuad", 0)
  /\ streams' = Interfered(streams)
  /\ UNCHANGED << timers, emitters, datasetVars, quadForest, matches, iterators >>

\* free() of the store
storeFree ==
  /\ store' = [store EXCEPT !.forest = UndefinedForest]
  /\ slast' = Stepped("free", 0)
  /\ streams' = Interfered(streams)
  /\ UNCHANGED << timers, emitters, datasetVars, quadForest, matches, iterators >>

\* removeMatches(subject, predicate, object, graph): 'end' is emitted at once when
\* the pattern is unsatisfiable, else the deletion is passed to asyncCall
removeMatches(pattern) ==
  /\ Len(emitters) < MaxCalls
  /\ LET call == Len(emitters) + 1
         matchResult == matchIdentifiers(store.termIdMap, pattern)
     IN  /\ IF matchResult = NullIdentifierQuad
            THEN /\ emitters' = Append(emitters, emit(NewEmitter(pattern)))
                 /\ timers' = timers
            ELSE /\ emitters' = Append(emitters, NewEmitter(pattern))
                 /\ timers' = Append(timers, [call |-> call, matchResult |-> matchResult])
         /\ slast' = Stepped("removeMatches", call)
  /\ UNCHANGED << store, streams, datasetVars, quadForest, matches, iterators >>

\* the caller attaches its 'end' listener to the emitter the call returned, in
\* the turn of the event loop that made the call
Listen(call) ==
  /\ call \in 1..Len(emitters)
  /\ ~emitters[call].listening
  /\ ~emitters[call].turnOver
  /\ emitters' = [emitters EXCEPT ![call].listening = TRUE]
  /\ slast' = Stepped("on", call)
  /\ UNCHANGED << store, timers, streams, datasetVars, quadForest, matches, iterators >>

\* the turn of the event loop that made the call runs to completion
TurnEnds(call) ==
  /\ call \in 1..Len(emitters)
  /\ ~emitters[call].turnOver
  /\ emitters' = [emitters EXCEPT ![call].turnOver = TRUE]
  /\ slast' = Stepped("turnEnds", call)
  /\ UNCHANGED << store, timers, streams, datasetVars, quadForest, matches, iterators >>

\* asyncCall with a task that builds the forest it deletes from
asyncCall_ensuresHasForest ==
  /\ timers # << >>
  /\ LET task == Head(timers)
     IN  /\ emitters[task.call].turnOver
         /\ store' = [storeEnsureHasForest(store) EXCEPT
                        !.forest.quads = ForestDeleteMatches(@, task.matchResult)]
         /\ emitters' = [emitters EXCEPT ![task.call] = emit(@)]
         /\ slast' = Stepped("asyncCall", task.call)
  /\ timers' = Tail(timers)
  /\ streams' = Interfered(streams)
  /\ UNCHANGED << datasetVars, quadForest, matches, iterators >>

\* the event loop runs the function passed to asyncCall (setTimeout 0), in a turn
\* that follows the turn of the call
asyncCall ==
  /\ timers # << >>
  /\ LET task == Head(timers)
     IN  /\ emitters[task.call].turnOver
         /\ store' = IF store.forest.defined
                     THEN [store EXCEPT !.forest.quads = ForestDeleteMatches(@, task.matchResult)]
                     ELSE store
         /\ emitters' = [emitters EXCEPT ![task.call] = emit(@)]
         /\ slast' = Stepped("asyncCall", task.call)
  /\ timers' = Tail(timers)
  /\ streams' = Interfered(streams)
  /\ UNCHANGED << datasetVars, quadForest, matches, iterators >>

NextStore ==
  \/ \E quad \in InputQuads : addQuad(quad)
  \/ storeFree
  \/ \E pattern \in InputPatterns : removeMatches(pattern)
  \/ \E call \in 1..Len(emitters) : Listen(call)
  \/ \E call \in 1..Len(emitters) : TurnEnds(call)
  \/ asyncCall

SpecStore == Init /\ [][NextStore]_vars

\* ------------------------------------------------------------------------
\* Import of a stream of quads into the store

\* the arrays of quads a stream may deliver
RECURSIVE StreamsOfLength(_)
StreamsOfLength(n) ==
  IF n = 0 THEN { << >> }
  ELSE { Append(a, q) : a \in StreamsOfLength(n - 1), q \in InputQuads }

InputStreams == UNION { StreamsOfLength(n) : n \in 0..MaxStreamLen }

\* a store as its constructor leaves it
NewStore == [forest |-> DefinedForest(NewForest), termIdMap |-> NewTermIdMap]

\* a stream passed to import: the quads it will deliver, how many it has delivered,
\* whether it has ended, whether its last 'data' listener threw, the store as the
\* import call left it, whether nothing else has written to the store since, and
\* the promise of storeStream ("none" for import)
NewStream(quads, before, promise) ==
  [quads |-> quads, delivered |-> 0, ended |-> FALSE, threw |-> FALSE,
   before |-> before, alone |-> TRUE, promise |-> promise, listener |-> "import"]

\* import(streamOfQuads): the forest is ensured once, at the call
import(quads) ==
  /\ Len(streams) < MaxStreams
  /\ store' = storeEnsureHasForest(store)
  /\ streams' = Append(streams, NewStream(quads, storeEnsureHasForest(store), "none"))
  /\ slast' = Stepped("import", Len(streams) + 1)
  /\ UNCHANGED << timers, emitters, datasetVars, quadForest, matches, iterators >>

\* storeStream(stream): a new store imports the stream; the promise is resolved
\* with the store by the 'end' listener
storeStream(quads) ==
  /\ Len(streams) < MaxStreams
  /\ store = NewStore
  /\ store' = storeEnsureHasForest(store)
  /\ streams' = Append(streams, NewStream(quads, storeEnsureHasForest(store), "pending"))
  /\ slast' = Stepped("storeStream", Len(streams) + 1)
  /\ UNCHANGED << timers, emitters, datasetVars, quadForest, matches, iterators >>

\* the 'data' listener of import that skips the quads with a term the store
\* does not know
onData_knownTermsOnly(k) ==
  /\ k \in 1..Len(streams)
  /\ streams[k].listener = "import"
  /\ ~streams[k].ended
  /\ streams[k].delivered < Len(streams[k].quads)
  /\ LET quad == streams[k].quads[streams[k].delivered + 1]
         identifierQuad == tryConvertToIdentifierQuad(store.termIdMap, quad)
         thrown == ~store.forest.defined
     IN  /\ store' = IF thrown \/ identifierQuad = NullIdentifierQuad THEN store
                     ELSE [store EXCEPT !.forest.quads = ForestAdd(@, identifierQuad)]
         /\ streams' = [j \in DOMAIN streams |->
              IF j = k THEN [streams[k] EXCEPT !.delivered = @ + 1, !.threw = thrown]
              ELSE Interfered(streams)[j]]
  /\ slast' = Stepped("data", k)
  /\ UNCHANGED << timers, emitters, datasetVars, quadForest, matches, iterators >>

\* the stream delivers its next quad to the 'data' listener of import: the terms
\* are interned, then this.forest!.add throws a TypeError when the store has no forest
onData(k) ==
  /\ k \in 1..Len(streams)
  /\ streams[k].listener = "import"
  /\ ~streams[k].ended
  /\ streams[k].delivered < Len(streams[k].quads)
  /\ LET quad == streams[k].quads[streams[k].delivered + 1]
         identifierQuad == convertToIdentifierQuadRet(store.termIdMap, quad)
         interned == [store EXCEPT !.termIdMap = convertToIdentifierQuad(@, quad)]
         thrown == ~store.forest.defined
     IN  /\ store' = IF thrown THEN interned
                     ELSE [interned EXCEPT !.forest.quads = ForestAdd(@, identifierQuad)]
         /\ streams' = [j \in DOMAIN streams |->
              IF j = k THEN [streams[k] EXCEPT !.delivered = @ + 1, !.threw = thrown]
              ELSE Interfered(streams)[j]]
  /\ slast' = Stepped("data", k)
  /\ UNCHANGED << timers, emitters, datasetVars, quadForest, matches, iterators >>

\* the stream ends when it has delivered its quads; the 'end' listener of
\* storeStream resolves the promise
onEnd(k) ==
  /\ k \in 1..Len(streams)
  /\ ~streams[k].ended
  /\ streams[k].delivered = Len(streams[k].quads)
  /\ streams' = [streams EXCEPT ![k].ended = TRUE,
                                ![k].promise = IF @ = "pending" THEN "resolved" ELSE @]
  /\ slast' = Stepped("end", k)
  /\ UNCHANGED << store, timers, emitters, datasetVars, quadForest, matches, iterators >>

NextImport ==
  \/ \E quad \in InputQuads : addQuad(quad)
  \/ storeFree
  \/ \E quads \in InputStreams : import(quads)
  \/ \E quads \in InputStreams : storeStream(quads)
  \/ \E k \in 1..Len(streams) : onData(k)
  \/ \E k \in 1..Len(streams) : onEnd(k)

SpecImport == Init /\ [][NextImport]_vars

\* ------------------------------------------------------------------------
\* Reads of the store, and removal of a stream of quads

\* a WasmTreeStoreMatch: the identifier list it reads, its index in it, the quads
\* it has pushed, how many times it has pushed null ('end'), and the pattern and
\* the store of the call that returned it
NewMatch(identifierList, pattern, before) ==
  [list |-> identifierList, index |-> 0, pushed |-> << >>, ended |-> 0,
   pattern |-> pattern, before |-> before]

\* match(subject, predicate, object, graph) of the store: the stream holds the
\* identifier list the forest returns and the TermIdMap of the store
StoreMatch(pattern) ==
  /\ Len(matches) < MaxMatches
  /\ matches' = Append(matches, NewMatch(storeMatch(store, pattern), pattern, store))
  /\ slast' = Stepped("match", Len(matches) + 1)
  /\ UNCHANGED << store, timers, emitters, streams, datasetVars, quadForest, iterators >>

\* _read of a stream that asks the forest for the matching quads at each read
read_live(k) ==
  /\ k \in 1..Len(matches)
  /\ matches[k].ended = 0
  /\ LET stream == matches[k]
         list == storeMatch(store, stream.pattern)
     IN  matches' = [matches EXCEPT ![k] =
           IF stream.index >= Len(list)
           THEN [stream EXCEPT !.ended = @ + 1]
           ELSE [stream EXCEPT
                   !.pushed = Append(@, getQuad(store.termIdMap, QuadAt(list, stream.index))),
                   !.index = @ + 4]]
  /\ slast' = Stepped("read", k)
  /\ UNCHANGED << store, timers, emitters, streams, datasetVars, quadForest, iterators >>

\* _read(): the consumer asks the stream for its next quad; null is pushed at the
\* end of the list, and the stream is not read after that
read(k) ==
  /\ k \in 1..Len(matches)
  /\ matches[k].ended = 0
  /\ LET stream == matches[k]
     IN  matches' = [matches EXCEPT ![k] =
           IF stream.index >= Len(stream.list)
           THEN [stream EXCEPT !.ended = @ + 1]
           ELSE [stream EXCEPT
                   !.pushed = Append(@, getQuad(store.termIdMap,
                                                QuadAt(stream.list, stream.index))),
                   !.index = @ + 4]]
  /\ slast' = Stepped("read", k)
  /\ UNCHANGED << store, timers, emitters, streams, datasetVars, quadForest, iterators >>

\* countQuads(subject, predicate, object, graph) of the store
StoreCountQuads(pattern) ==
  /\ slast' = Stepped("countQuads", storeCountQuads(store, pattern))
  /\ UNCHANGED << store, timers, emitters, streams, datasetVars, quadForest, matches, iterators >>

\* remove(streamOfQuads): a 'data' listener is attached to the stream
remove(quads) ==
  /\ Len(streams) < MaxStreams
  /\ streams' = Append(streams, [NewStream(quads, store, "none") EXCEPT !.listener = "remove"])
  /\ slast' = Stepped("remove", Len(streams) + 1)
  /\ UNCHANGED << store, timers, emitters, datasetVars, quadForest, matches, iterators >>

\* a 'data' listener of remove that interns the terms of the quad as import does
onRemoveData_interning(k) ==
  /\ k \in 1..Len(streams)
  /\ streams[k].listener = "remove"
  /\ ~streams[k].ended
  /\ streams[k].delivered < Len(streams[k].quads)
  /\ LET quad == streams[k].quads[streams[k].delivered + 1]
         identifierQuad == convertToIdentifierQuadRet(store.termIdMap, quad)
     IN  /\ store' = IF ~store.forest.defined THEN store
                     ELSE [store EXCEPT !.termIdMap = convertToIdentifierQuad(@, quad),
                                        !.forest.quads = ForestRemove(@, identifierQuad)]
         /\ streams' = [j \in DOMAIN streams |->
              IF j = k THEN [streams[k] EXCEPT !.delivered = @ + 1]
              ELSE Interfered(streams)[j]]
  /\ slast' = Stepped("removeData", k)
  /\ UNCHANGED << timers, emitters, datasetVars, quadForest, matches, iterators >>

\* the stream delivers its next quad to the 'data' listener of remove: nothing
\* is done on a store without forest or for a quad with an unknown term
onRemoveData(k) ==
  /\ k \in 1..Len(streams)
  /\ streams[k].listener = "remove"
  /\ ~streams[k].ended
  /\ streams[k].delivered < Len(streams[k].quads)
  /\ LET quad == streams[k].quads[streams[k].delivered + 1]
         identifierQuad == tryConvertToIdentifierQuad(store.termIdMap, quad)
     IN  /\ store' = IF ~store.forest.defined \/ identifierQuad = NullIdentifierQuad
                     THEN store
                     ELSE [store EXCEPT !.forest.quads = ForestRemove(@, identifierQuad)]
         /\ streams' = [j \in DOMAIN streams |->
              IF j = k THEN [streams[k] EXCEPT !.delivered = @ + 1]
              ELSE Interfered(streams)[j]]
  /\ slast' = Stepped("removeData", k)
  /\ UNCHANGED << timers, emitters, datasetVars, quadForest, matches, iterators >>

\* Specification of the streams match returns: the store is written to and freed
\* while the streams are read
NextMatch ==
  \/ \E quad \in InputQuads : addQuad(quad)
  \/ storeFree
  \/ \E pattern \in InputPatterns : StoreMatch(pattern)
  \/ \E k \in 1..Len(matches) : read(k)
  \/ \E quads \in InputStreams : remove(quads)
  \/ \E k \in 1..Len(streams) : onRemoveData(k)
  \/ \E k \in 1..Len(streams) : onEnd(k)

SpecMatch == Init /\ [][NextMatch]_vars

\* Specification of the lookups. A behaviour exercises the lookups of one kind:
\* on one facade and the facades derived from it, or on a store that is written
\* to and freed meanwhile, through match and countQuads, through removeMatches, or
\* through remove. The facades and the store share no object, and what a lookup
\* of the store does depends on the store and on the objects of its own kind only.
NextLookups ==
  \/ /\ slast.op = "none"
     /\ \/ \E klass \in Classes : NewDataset(klass, 1)
        \/ \E d \in Live, quad \in InputQuads : Add(d, quad)
        \/ \E d \in Live, quad \in InputQuads : Has(d, quad)
        \/ \E d \in Live, quad \in InputQuads : Delete(d, quad)
        \/ \E d \in Live, pattern \in InputPatterns : Match(d, pattern, MaxDatasets)
        \/ \E d \in Live, pattern \in InputPatterns : CountQuads(d, pattern)
        \/ \E d \in Live, pattern \in InputPatterns : DeleteMatches(d, pattern)
  \/ /\ datasets = << >>
     /\ \/ \E quad \in InputQuads : addQuad(quad)
        \/ storeFree
  \/ /\ datasets = << >> /\ emitters = << >> /\ streams = << >>
     /\ \/ \E pattern \in InputPatterns : StoreMatch(pattern)
        \/ \E pattern \in InputPatterns : StoreCountQuads(pattern)
  \/ /\ datasets = << >> /\ matches = << >> /\ streams = << >>
     /\ \/ \E pattern \in InputPatterns : removeMatches(pattern)
        \/ \E call \in 1..Len(emitters) : TurnEnds(call)
        \/ asyncCall
  \/ /\ datasets = << >> /\ matches = << >> /\ emitters = << >>
     /\ \/ \E quads \in InputStreams : remove(quads)
        \/ \E k \in 1..Len(streams) : onRemoveData(k)
        \/ \E k \in 1..Len(streams) : onEnd(k)

SpecLookups == Init /\ [][NextLookups]_vars

\* ------------------------------------------------------------------------
\* Properties of the dataset facades

\* the term quad with the terms as graphy holds them
GraphyQuad(quad) ==
  QuadOf(fromTerm(quad.subject), fromTerm(quad.predicate),
         fromTerm(quad.object), fromTerm(quad.graph))

\* the set of the quads an iteration yields
TermQuads(ds) == { toArray(ds)[i] : i \in 1..Len(toArray(ds)) }

\* the set of the quads an iteration of facade d yields, in a heap of facades
\* and of TermIdMaps
TermQuadsIn(heap, maps, d) ==
  LET quads == IteratorQuads(maps[heap[d].termIdMap], asIdentifierListRet(heap[d]))
  IN  { quads[i] : i \in 1..Len(quads) }

\* how many times an iteration yields the quad
Occurrences(ds, quad) ==
  Cardinality({ i \in 1..Len(toArray(ds)) : toArray(ds)[i] = GraphyQuad(quad) })

\* C1: after add(q) on any facade, has(q) is true, an iteration of the facade
\* yields q (the same four terms) exactly once, and size counts what the
\* iteration yields.
C1_RoundTrip ==
  last.op = "add" =>
    LET ds == datasets[last.d]
    IN  /\ has(ds, last.arg)
        /\ Occurrences(ds, last.arg) = 1
        /\ size(ds) = Len(toArray(ds))
        /\ size(ds) = Cardinality(TermQuads(ds))

\* C2: match(P) returns a facade whose quads are exactly the quads of the source
\* that agree with P on every bound position, and the source keeps its quads.
C2_Match ==
  [][ last'.op = "match" =>
        /\ ~last'.threw
        /\ TermQuadsIn(datasets', termIdMaps', last'.r) =
             { quad \in TermQuadsIn(datasets, termIdMaps, last'.d) :
                 QuadAgrees(quad, last'.arg) }
        /\ TermQuadsIn(datasets', termIdMaps', last'.d) =
             TermQuadsIn(datasets, termIdMaps, last'.d) ]_vars

C4_MutationDropsList ==
  [][ LET d == last'.d
      IN  /\ last'.op \in {"add", "delete", "deleteMatches", "addAll"} =>
               datasets'[d].forest.defined /\ ~datasets'[d].identifierList.defined
          /\ last'.op \in {"has", "match", "iterate", "countQuads"}
               /\ datasets[d].identifierList.defined =>
               datasets'[d].identifierList.defined ]_vars

\* the argument of the mutating call names only terms the TermIdMap of the
\* facade knows, and is not the facade itself
ReachesForest(op, d, arg) ==
  CASE op = "add" -> TRUE
    [] op = "delete" ->
         tryConvertToIdentifierQuad(MapOf(datasets[d]), arg) # NullIdentifierQuad
    [] op = "deleteMatches" ->
         matchIdentifiers(MapOf(datasets[d]), arg) # NullIdentifierQuad
    [] op = "addAll" -> ~(arg.kind = "dataset" /\ arg.d = d)
    [] OTHER -> FALSE

\* C4: add, delete and deleteMatches of terms that are all known, and addAll of
\* anything but the facade itself, leave the facade with a forest and no
\* identifier list; delete and deleteMatches with an unknown term leave the
\* facade as it was; addAll of the facade itself leaves it a forest and an
\* identifier list; has, match, iteration and countQuads never discard an
\* identifier list the facade holds.
C4_MutationDropsListWhenItReachesTheForest ==
  [][ LET d == last'.d
          op == last'.op
      IN  /\ op \in {"add", "delete", "deleteMatches", "addAll"}
               /\ ReachesForest(op, d, last'.arg) =>
               datasets'[d].forest.defined /\ ~datasets'[d].identifierList.defined
          /\ op \in {"delete", "deleteMatches"} /\ ~ReachesForest(op, d, last'.arg) =>
               datasets'[d] = datasets[d]
          /\ op = "addAll" /\ ~ReachesForest(op, d, last'.arg) =>
               datasets'[d].forest.defined /\ datasets'[d].identifierList.defined
          /\ op \in {"has", "match", "iterate", "countQuads"}
               /\ datasets[d].identifierList.defined =>
               datasets'[d].identifierList.defined ]_vars

C4_Witness ==
  /\ last.op = "addAll" /\ last.arg.kind = "dataset" /\ last.arg.d # last.d
  /\ datasets[last.arg.d].identifierList.defined
  /\ Len(datasets[last.arg.d].identifierList.data) > 0
  /\ datasets[last.d].forest.defined /\ ~datasets[last.d].identifierList.defined

\* each identifier below nextIdentifier decodes to one term whose identifier it
\* is, each known term has an identifier below nextIdentifier that decodes to
\* it, and the default graph is the term of identifier 0
WellFormed(map) ==
  /\ Len(map.identifiersToTerms) = map.nextIdentifier
  /\ getTerm(map, 0) = DefaultGraph
  /\ \A identifier \in 0..(map.nextIdentifier - 1) :
       /\ getTerm(map, identifier) # UndefinedTerm
       /\ findIdentifier(map, getTerm(map, identifier)) = identifier
  /\ \A key \in DOMAIN map.termsToIdentifiers :
       LET identifier == map.termsToIdentifiers[key]
       IN  /\ identifier \in 0..(map.nextIdentifier - 1)
           /\ getTerm(map, identifier) # UndefinedTerm
           /\ concise(getTerm(map, identifier)) = key

\* C5: in every TermIdMap the identifiers 0..nextIdentifier-1 and the known
\* terms are in bijection, the default graph has identifier 0, and no operation
\* forgets a term or changes its identifier.
C5_Bijection ==
  [][ /\ \A m \in 1..Len(termIdMaps') : WellFormed(termIdMaps'[m])
      /\ \A m \in 1..Len(termIdMaps) :
           \A key \in DOMAIN termIdMaps[m].termsToIdentifiers :
             /\ key \in DOMAIN termIdMaps'[m].termsToIdentifiers
             /\ termIdMaps'[m].termsToIdentifiers[key] =
                  termIdMaps[m].termsToIdentifiers[key] ]_vars

\* ------------------------------------------------------------------------
\* Properties of the set algebra

\* the quads of the argument of a set operation, with the terms as graphy holds them
OtherTermQuads(other) ==
  IF other.kind = "array"
  THEN { GraphyQuad(other.quads[k]) : k \in 1..Len(other.quads) }
  ELSE TermQuadsIn(datasets, termIdMaps, other.d)

\* the set operation on sets of term quads
Reference(op, A, B) ==
  CASE op = "intersection" -> A \cap B
    [] op = "union" -> A \cup B
    [] op = "difference" -> A \ B

\* C6: intersection, union and difference of a WasmTreeDataset with any dataset
\* or array of quads return the mathematical intersection, union and difference
\* of the two sets of term quads, on the fast path and on the slow path.
C6_SetAlgebra ==
  [][ last'.op \in SetOperations =>
        /\ ~last'.threw
        /\ TermQuadsIn(datasets', termIdMaps', last'.r) =
             Reference(last'.op, TermQuadsIn(datasets, termIdMaps, last'.d),
                       OtherTermQuads(last'.arg)) ]_vars

\* what has(quad) answers on facade d of a heap of facades and of TermIdMaps: it
\* looks the identifiers of the quad up in the forest, which is built from the
\* identifier list when only the list is held
HasIn(heap, maps, d, quad) ==
  LET identifierQuad == tryConvertToIdentifierQuad(maps[heap[d].termIdMap], quad)
      held == IF heap[d].forest.defined THEN heap[d].forest.quads
              ELSE IF heap[d].identifierList.defined
                   THEN QuadsOfList(heap[d].identifierList.data)
                   ELSE {}
  IN  identifierQuad # NullIdentifierQuad /\ identifierQuad \in held

\* what a caller observes of facade d: the quads it yields, the quads it has, its size
Contents(heap, maps, d) ==
  [ quads |-> TermQuadsIn(heap, maps, d),
    held |-> { quad \in InputQuads : HasIn(heap, maps, d, quad) },
    size |-> size(heap[d]) ]

\* C7: intersection, union and difference leave both operands with the quads
\* they had before the call, and their result is a facade that did not exist
\* before the call.
C7_OperandsUnchanged ==
  [][ last'.op \in SetOperations =>
        LET d == last'.d
            other == last'.arg
        IN  /\ Contents(datasets', termIdMaps', d) = Contents(datasets, termIdMaps, d)
            /\ other.kind = "dataset" =>
                 Contents(datasets', termIdMaps', other.d) =
                   Contents(datasets, termIdMaps, other.d)
            /\ ~last'.threw =>
                 /\ last'.r = Len(datasets) + 1
                 /\ Len(datasets') = Len(datasets) + 1 ]_vars

C7_Witness ==
  /\ last.op = "union" /\ ~last.threw /\ last.arg.kind = "dataset"
  /\ last.arg.d # last.d
  /\ size(datasets[last.d]) = 1 /\ size(datasets[last.arg.d]) = 1
  /\ size(datasets[last.r]) = 2

\* ------------------------------------------------------------------------
\* Properties of the store

\* a task of the call waits for the event loop
Pending(call) == \E k \in 1..Len(timers) : timers[k].call = call

\* C8: for every call of removeMatches, 'end' is emitted once, in a turn that
\* follows the turn of the call, so that the listener the caller attaches when
\* the call has returned receives it once.
C8_EndAfterReturn ==
  \A call \in 1..Len(emitters) :
    LET emitter == emitters[call]
    IN  /\ emitter.emitted <= 1
        /\ emitter.emitted = 1 => emitter.turnOver
        /\ emitter.turnOver /\ ~Pending(call) => emitter.emitted = 1
        /\ emitter.listening /\ emitter.emitted = 1 => emitter.received = 1

\* the quads of a store that agree with the pattern
Matching(st, pattern) == { quad \in StoreQuads(st) : QuadAgrees(quad, pattern) }

\* C9: removeMatches(P) deletes nothing before it returns; when 'end' is emitted
\* no quad of the store matches P, whenever the quad was added; the task deletes
\* no quad that does not match P.
C9_RemoveMatches ==
  /\ slast.op = "removeMatches" => store = slast.before
  /\ slast.op \in {"removeMatches", "asyncCall"}
       /\ emitters[slast.call].emitted = 1 =>
       Matching(store, emitters[slast.call].pattern) = {}
  /\ slast.op = "asyncCall" =>
       StoreQuads(slast.before) \ Matching(slast.before, emitters[slast.call].pattern)
         \subseteq StoreQuads(store)

C9_Witness ==
  /\ slast.op = "asyncCall"
  /\ Matching(slast.before, emitters[slast.call].pattern) # {}
  /\ StoreQuads(slast.before) # Matching(slast.before, emitters[slast.call].pattern)
  /\ StoreQuads(store) =
       StoreQuads(slast.before) \ Matching(slast.before, emitters[slast.call].pattern)
  /\ emitters[slast.call].received = 1

Delivered(k) == streams[k].quads[streams[k].delivered]

\* C11: add, addQuad and every insertion of import on a freed store build a
\* forest and insert the quad without failing, also when the 'data' event comes
\* after a free() that was called while the import was in flight.
C11_WriteOnFreedStore ==
  /\ slast.op = "addQuad" /\ ~slast.before.forest.defined =>
       store.forest.defined /\ Cardinality(StoreQuads(store)) = 1
  /\ slast.op = "data" /\ ~slast.before.forest.defined =>
       /\ ~streams[slast.call].threw
       /\ store.forest.defined
       /\ GraphyQuad(Delivered(slast.call)) \in StoreQuads(store)

\* the store after it has interned and inserted the quads, from the k-th on, in order
RECURSIVE ImportedFrom(_, _, _)
ImportedFrom(st, quads, k) ==
  IF k > Len(quads) THEN st
  ELSE ImportedFrom(
         [st EXCEPT !.termIdMap = convertToIdentifierQuad(@, quads[k]),
                    !.forest.quads =
                      ForestAdd(@, convertToIdentifierQuadRet(st.termIdMap, quads[k]))],
         quads, k + 1)

\* C12: when a stream passed to import ends and nothing else has written to the
\* store since the call, every quad it delivered has been interned and inserted
\* in arrival order: the store holds the quads it held at the call and the
\* quads of the stream, and the promise of storeStream is resolved at that
\* step and never before the end.
C12_ImportEnd ==
  /\ \A k \in 1..Len(streams) : streams[k].promise = "resolved" => streams[k].ended
  /\ slast.op = "end" /\ streams[slast.call].alone =>
       LET stream == streams[slast.call]
       IN  /\ store = ImportedFrom(stream.before, stream.quads, 1)
           /\ StoreQuads(store) =
                StoreQuads(stream.before) \cup
                  { GraphyQuad(stream.quads[i]) : i \in 1..Len(stream.quads) }
           /\ matchCount(store.forest.quads, AllWildcards) =
                Cardinality(StoreQuads(store))
           /\ stream.promise \in {"none", "resolved"}

C12_Witness ==
  /\ slast.op = "end" /\ streams[slast.call].alone
  /\ Len(streams[slast.call].quads) = 2
  /\ StoreQuads(streams[slast.call].before) # {}
  /\ Cardinality(StoreQuads(store)) = 2

\* ------------------------------------------------------------------------
\* Properties of free and of the facades match derives

\* C13: free() never fails, whatever the state of the facade and however many
\* times it is called; it leaves the facade with size 0, no forest and no
\* identifier list; an add(q) that follows builds a forest, after which has(q)
\* is true and size is 1.
C13_Free ==
  [][ /\ last'.op = "free" =>
           /\ ~last'.threw
           /\ size(datasets'[last'.d]) = 0
           /\ ~datasets'[last'.d].forest.defined
           /\ ~datasets'[last'.d].identifierList.defined
           /\ TermQuadsIn(datasets', termIdMaps', last'.d) = {}
      /\ last.op = "free" /\ last'.op = "add" /\ last'.d = last.d =>
           /\ ~last'.threw
           /\ datasets'[last'.d].forest.defined
           /\ HasIn(datasets', termIdMaps', last'.d, last'.arg)
           /\ size(datasets'[last'.d]) = 1 ]_vars

C13_Witness ==
  /\ last.op = "free"
  /\ datasets[last.d].klass = DatasetWithIdentifierList
  /\ MapOf(datasets[last.d]).nextIdentifier > 1
  /\ Len(datasets) = 2 /\ last.d = 2
  /\ size(datasets[last.d]) = 0

\* the classes whose derived facades are meant to share the TermIdMap of their
\* parent, and the classes whose derived facades get a TermIdMap of their own
Shared == {WasmTreeDataset, DatasetWithSharedTermIdMap}
Isolated == {AlwaysForestDataset, DatasetWithIdentifierList}

\* the last call is a match that returned, with a pattern that names a term the
\* TermIdMap of the parent does not know
UnsatisfiableMatch ==
  /\ last.op = "match" /\ ~last.threw
  /\ matchIdentifiers(MapOf(datasets[last.d]), last.arg) = NullIdentifierQuad

\* C14: the facade match returns for an unsatisfiable pattern has size 0; its
\* TermIdMap is the TermIdMap of the parent for the Shared classes, and a
\* TermIdMap that maps at least the default graph for the Isolated classes.
C14_EmptyMatch ==
  UnsatisfiableMatch =>
    LET parent == datasets[last.d]
        derived == datasets[last.r]
    IN  /\ size(derived) = 0
        /\ parent.klass \in Shared => derived.termIdMap = parent.termIdMap
        /\ parent.klass \in Isolated =>
             /\ findIdentifier(MapOf(derived), DefaultGraph) = 0
             /\ getTerm(MapOf(derived), 0) = DefaultGraph

\* the identifiers a TermIdMap gives to terms
IdentifiersOf(map) ==
  { map.termsToIdentifiers[key] : key \in DOMAIN map.termsToIdentifiers }

\* C15: the facade match returns has the very TermIdMap of its parent for the
\* Shared classes, so that it knows the terms added later through the parent;
\* for the Isolated classes it has a TermIdMap of its own, which holds the
\* identifiers of the result and the default graph only, and which an add on
\* another facade never changes.
C15_SharedOrIsolated ==
  [][ /\ last'.op = "match" /\ ~last'.threw =>
           LET parent == datasets'[last'.d]
               derived == datasets'[last'.r]
           IN  /\ parent.klass \in Shared =>
                    /\ derived.termIdMap = parent.termIdMap
                    /\ \A term \in Terms :
                         findIdentifier(termIdMaps'[derived.termIdMap], term) =
                           findIdentifier(termIdMaps'[parent.termIdMap], term)
               /\ parent.klass \in Isolated =>
                    /\ derived.termIdMap # parent.termIdMap
                    /\ IdentifiersOf(termIdMaps'[derived.termIdMap]) =
                         IdentifiersIn(asIdentifierListRet(derived)) \cup {0}
      /\ last'.op = "add" =>
           /\ \A m \in 1..Len(termIdMaps) :
                m # datasets[last'.d].termIdMap => termIdMaps'[m] = termIdMaps[m]
           /\ \A e \in 1..Len(datasets) :
                datasets[e].klass \in Shared =>
                  \A k \in {"subject", "predicate", "object", "graph"} :
                    findIdentifier(termIdMaps'[datasets'[e].termIdMap], last'.arg[k])
                      # UndefinedId ]_vars

\* the classes that cache an identifier list
Listed == {WasmTreeDataset, DatasetWithIdentifierList}

\* C16 as the specification states it: the facade match returns holds the
\* identifier list of the result and no forest, and iterating it or filtering
\* it does not build a forest.
C16_MatchHoldsList ==
  [][ /\ last'.op = "match" /\ ~last'.threw =>
           /\ datasets'[last'.r].identifierList.defined
           /\ ~datasets'[last'.r].forest.defined
      /\ last'.op \in {"iterate", "filter"} /\ ~datasets[last'.d].forest.defined =>
           ~datasets'[last'.d].forest.defined ]_vars

\* C16: for the classes that cache an identifier list, the facade match returns
\* has no forest; it holds the identifier list of the result when the pattern
\* is satisfiable and no list when it is not. For the other classes it holds a
\* forest and no list. For every class, iterating a facade or filtering it
\* builds no forest.
C16_MatchHoldsListWhenListed ==
  [][ /\ last'.op = "match" /\ ~last'.threw =>
           LET derived == datasets'[last'.r]
               matchResult == matchIdentifiers(MapOf(datasets[last'.d]), last'.arg)
           IN  /\ derived.klass \in Listed =>
                    /\ ~derived.forest.defined
                    /\ derived.identifierList.defined
                         <=> matchResult # NullIdentifierQuad
                    /\ matchResult # NullIdentifierQuad =>
                         derived.identifierList.data =
                           get_all(ensureHasForest(datasets[last'.d]).forest.quads,
                                   matchResult)
               /\ derived.klass \notin Listed =>
                    derived.forest.defined /\ ~derived.identifierList.defined
      /\ last'.op \in {"iterate", "filter"} /\ ~datasets[last'.d].forest.defined =>
           ~datasets'[last'.d].forest.defined ]_vars

C16_Witness ==
  /\ last.op = "iterate" /\ last.d = 2
  /\ datasets[2].klass = WasmTreeDataset
  /\ datasets[2].identifierList.defined /\ ~datasets[2].forest.defined
  /\ Len(datasets[2].identifierList.data) = 4

\* ------------------------------------------------------------------------
\* Properties of countQuads, deleteMatches, delete and equals

\* the facades that have countQuads
Counting == { d \in Live : datasets[d].klass \in {WasmTreeDataset, AlwaysForestDataset} }

C18_DeleteMatches ==
  [][ last'.op = "deleteMatches" =>
        LET d == last'.d
            P == last'.arg
            before == TermQuadsIn(datasets, termIdMaps, d)
            after == TermQuadsIn(datasets', termIdMaps', d)
        IN  /\ ~last'.threw
            /\ after = { quad \in before : ~QuadAgrees(quad, P) }
            /\ size(datasets'[d]) = Cardinality(after)
            /\ \A quad \in InputQuads :
                  HasIn(datasets', termIdMaps', d, quad) <=>
                    HasIn(datasets, termIdMaps, d, quad) /\ ~QuadAgrees(quad, P)
            /\ P = PatternOf(NullTerm, NullTerm, NullTerm, NullTerm) => after = {}
            /\ \A e \in Live \ {d} : datasets'[e] = datasets[e]
            /\ termIdMaps' = termIdMaps ]_vars

C18_Witness ==
  /\ last.op = "deleteMatches"
  /\ last.arg = PatternOf(NullTerm, NullTerm, NullTerm, DefaultGraph)
  /\ TermQuads(datasets[last.d]) = {Q2}
  /\ \E e \in Live \ {last.d} :
        /\ datasets[e].termIdMap = datasets[last.d].termIdMap
        /\ TermQuads(datasets[e]) = {Q1, Q2}

\* the identifier quads facade d of a heap holds, in its forest or in its list
HeldIn(heap, d) ==
  IF heap[d].forest.defined THEN heap[d].forest.quads
  ELSE IF heap[d].identifierList.defined THEN QuadsOfList(heap[d].identifierList.data)
  ELSE {}

C20_Equals ==
  [][ last'.op = "equals" =>
        /\ ~last'.threw
        /\ equalsRet(last'.d, last'.arg) = "true" <=>
             TermQuadsIn(datasets, termIdMaps, last'.d) = OtherTermQuads(last'.arg) ]_vars

\* ------------------------------------------------------------------------
\* Properties of contains, of the laws of the set algebra and of addAll

\* C21: A.contains(B) never fails and answers true exactly when every term quad
\* of B is a term quad of A (so a facade contains itself and an empty one, an empty
\* facade contains no facade that is not empty), and false when a quad of B has a
\* term the TermIdMap of A does not know.
C21_Contains ==
  [][ last'.op = "contains" =>
        /\ ~last'.threw
        /\ containsRet(last'.d, last'.arg) = "true" <=>
             OtherTermQuads(last'.arg) \subseteq TermQuadsIn(datasets, termIdMaps, last'.d) ]_vars

\* the facades that have the set operations
Algebraic == { d \in Live : datasets[d].klass = WasmTreeDataset }

\* the laws between facades A and B, compared as sets of term quads
Laws(A, B) ==
  LET union(X, Y) == SetOperationRet("union", X, OtherDataset(Y))
      intersection(X, Y) == SetOperationRet("intersection", X, OtherDataset(Y))
      difference(X, Y) == SetOperationRet("difference", X, OtherDataset(Y))
  IN  /\ ~union(A, A).threw /\ union(A, A).quads = TermQuads(datasets[A])
      /\ ~union(A, B).threw /\ ~union(B, A).threw
      /\ union(A, B).quads = union(B, A).quads
      /\ ~intersection(A, B).threw /\ ~intersection(B, A).threw
      /\ intersection(A, B).quads = intersection(B, A).quads
      /\ ~difference(A, A).threw /\ difference(A, A).quads = {}
      /\ containsRet(A, OtherDataset(A)) = "true"
      /\ equalsRet(A, OtherDataset(A)) = "true"

\* C22: for all facades A and B that have the set operations, compared as sets of
\* term quads: A.union(A) = A, A.union(B) = B.union(A), A.intersection(B) =
\* B.intersection(A), A.difference(A) is empty, A.contains(A) and A.equals(A) are
\* true; the facade a set operation returns holds the quads these laws are about.
C22_Laws ==
  /\ [](\A A \in Algebraic : \A B \in Algebraic : Laws(A, B))
  /\ [][ last'.op \in SetOperations /\ datasets[last'.d].klass = WasmTreeDataset
         /\ last'.arg.kind = "dataset" /\ last'.arg.d \in Algebraic =>
           /\ ~last'.threw
           /\ TermQuadsIn(datasets', termIdMaps', last'.r) =
                SetOperationRet(last'.op, last'.d, last'.arg).quads ]_vars

C22_Witness ==
  /\ last.op = "union" /\ ~last.threw /\ last.arg.kind = "dataset"
  /\ datasets[last.arg.d].klass = WasmTreeDataset
  /\ datasets[last.arg.d].termIdMap # datasets[last.d].termIdMap
  /\ TermQuads(datasets[last.d]) = {Q1}
  /\ TermQuads(datasets[last.arg.d]) = {Q2}
  /\ TermQuads(datasets[last.r]) = {Q1, Q2}
  /\ SetOperationRet("union", last.arg.d, OtherDataset(last.d)).quads = {Q1, Q2}

\* C23: addAll(other) never fails and leaves the facade with the quads it had
\* united with the quads of other, whether other is an array of quads or a facade,
\* with the same TermIdMap or another, terms new to the TermIdMap included; other
\* keeps its quads.
C23_AddAll ==
  [][ last'.op = "addAll" =>
        LET d == last'.d
            other == last'.arg
        IN  /\ ~last'.threw
            /\ TermQuadsIn(datasets', termIdMaps', d) =
                 TermQuadsIn(datasets, termIdMaps, d) \cup OtherTermQuads(other)
            /\ other.kind = "dataset" /\ other.d # d =>
                 Contents(datasets', termIdMaps', other.d) =
                   Contents(datasets, termIdMaps, other.d) ]_vars

\* ------------------------------------------------------------------------
\* Properties of filter and map

\* C24: filter(pred) returns a new facade whose quads are the quads of the source
\* that pred accepts, each once; the facade holds an identifier list and no
\* forest; the source keeps its quads.
C24_Filter ==
  [][ last'.op = "filter" =>
        LET d == last'.d
            r == last'.r
            f == last'.arg
        IN  /\ ~last'.threw
            /\ r = Len(datasets) + 1 /\ Len(datasets') = r
            /\ TermQuadsIn(datasets', termIdMaps', r) =
                 { quad \in TermQuadsIn(datasets, termIdMaps, d) : CallFilterIteratee(f, quad) }
            /\ size(datasets'[r]) = Cardinality(TermQuadsIn(datasets', termIdMaps', r))
            /\ datasets'[r].identifierList.defined
            /\ ~datasets'[r].forest.defined
            /\ Contents(datasets', termIdMaps', d) = Contents(datasets, termIdMaps, d) ]_vars

C24_Witness ==
  /\ last.op = "filter" /\ last.arg = "inDefaultGraph"
  /\ TermQuads(datasets[last.d]) = {Q1, Q2}
  /\ TermQuads(datasets[last.r]) = {Q1}
  /\ datasets[last.r].identifierList.defined /\ ~datasets[last.r].forest.defined

\* C25: map(fn) returns a new facade whose quads are the images by fn of the quads
\* of the source, each once, so that its size is at most the size of the source;
\* the facade holds a forest and no identifier list; on an empty source fn is not
\* called (the result is empty and no term is given an identifier); the source
\* keeps its quads.
C25_Map ==
  [][ last'.op = "map" =>
        LET d == last'.d
            r == last'.r
            f == last'.arg
            source == TermQuadsIn(datasets, termIdMaps, d)
            images == { GraphyQuad(CallMapIteratee(f, quad)) : quad \in source }
        IN  /\ ~last'.threw
            /\ r = Len(datasets) + 1 /\ Len(datasets') = r
            /\ TermQuadsIn(datasets', termIdMaps', r) = images
            /\ size(datasets'[r]) = Cardinality(images)
            /\ size(datasets'[r]) <= size(datasets[d])
            /\ datasets'[r].forest.defined
            /\ ~datasets'[r].identifierList.defined
            /\ source = {} => termIdMaps' = termIdMaps
            /\ Contents(datasets', termIdMaps', d) = Contents(datasets, termIdMaps, d) ]_vars

C25_Witness ==
  /\ last.op = "map" /\ last.arg = "toQ1"
  /\ TermQuads(datasets[last.d]) = {Q1, Q2}
  /\ TermQuads(datasets[last.r]) = {Q1}
  /\ size(datasets[last.r]) = 1
  /\ datasets[last.r].forest.defined /\ ~datasets[last.r].identifierList.defined

\* ------------------------------------------------------------------------
\* Properties of the failures

\* a bound term of the pattern, or a term of the quad, is unknown to the TermIdMap
\* of facade d
UnknownIn(op, d, arg) ==
  IF op \in {"match", "countQuads", "deleteMatches"}
  THEN matchIdentifiers(MapOf(datasets[d]), arg) = NullIdentifierQuad
  ELSE tryConvertToIdentifierQuad(MapOf(datasets[d]), arg) = NullIdentifierQuad

\* C26: with a bound term the TermIdMap does not know, no call fails: match
\* returns an empty facade, countQuads answers 0, has answers false, and none of
\* them changes the quads of the facade nor any TermIdMap; delete and
\* deleteMatches leave every facade (forest, identifier list) and every TermIdMap
\* as they were.
C26_UnknownTerm ==
  [][ last'.op \in {"match", "countQuads", "has", "delete", "deleteMatches"}
      /\ UnknownIn(last'.op, last'.d, last'.arg) =>
        LET d == last'.d
        IN  /\ ~last'.threw
            /\ \A i \in DOMAIN termIdMaps : termIdMaps'[i] = termIdMaps[i]
            /\ Contents(datasets', termIdMaps', d) = Contents(datasets, termIdMaps, d)
            /\ last'.op = "match" =>
                 /\ last'.r = Len(datasets) + 1
                 /\ size(datasets'[last'.r]) = 0
                 /\ TermQuadsIn(datasets', termIdMaps', last'.r) = {}
                 /\ datasets'[d] = datasets[d]
            /\ last'.op = "countQuads" => countQuads(datasets[d], last'.arg) = 0
            /\ last'.op = "has" => ~has(datasets[d], last'.arg) /\ datasets' = datasets
            /\ last'.op \in {"delete", "deleteMatches"} =>
                 datasets' = datasets /\ termIdMaps' = termIdMaps ]_vars

C26_Witness ==
  /\ last.op = "deleteMatches"
  /\ UnknownIn(last.op, last.d, last.arg)
  /\ datasets[last.d].identifierList.defined /\ ~datasets[last.d].forest.defined
  /\ size(datasets[last.d]) = 2

\* C27: addAll reports a failure when it is handed something that is not an
\* iterable of quads; when addAll fails, the facade is as it was before the call:
\* the same quads, the same identifier list, a forest if and only if it had one,
\* and the same TermIdMap.
C27_AddAllFailure ==
  [][ last'.op = "addAll" =>
        LET d == last'.d
        IN  /\ last'.arg \in MalformedInputs => last'.threw
            /\ last'.threw =>
                 /\ Contents(datasets', termIdMaps', d) = Contents(datasets, termIdMaps, d)
                 /\ datasets'[d].identifierList = datasets[d].identifierList
                 /\ datasets'[d].forest.defined = datasets[d].forest.defined
                 /\ termIdMaps' = termIdMaps ]_vars

\* ------------------------------------------------------------------------
\* Properties of the TermIdMap

\* the operations with another dataset that read both operands
Reads == SetOperations \cup {"contains", "equals"}

\* the concise keys of the terms of the quads of other (none for a quad that is null)
OtherKeys(other) ==
  UNION { IF quad = NullQuad THEN {}
          ELSE { concise(quad.subject), concise(quad.predicate),
                 concise(quad.object), concise(quad.graph) } :
          quad \in OtherTermQuads(other) }

\* C28 as stated: after union, intersection, difference, contains or equals the
\* TermIdMap of the left operand has the next identifier and the mappings it had.
C28_ReadsKeepTermIdMap ==
  [][ last'.op \in Reads =>
        termIdMaps'[datasets[last'.d].termIdMap] = termIdMaps[datasets[last'.d].termIdMap]
    ]_vars

\* C28: intersection, difference, contains and equals, and union between facades
\* that share their TermIdMap, leave every TermIdMap as it was; union with any
\* other operand leaves every TermIdMap but the left one as it was, and in the
\* left one the known terms keep their identifiers and the only new terms are
\* terms of the quads of the other operand, with the next identifiers.
C28_ReadsKeepTermIdMapButUnion ==
  [][ last'.op \in Reads =>
        LET m == datasets[last'.d].termIdMap
            old == termIdMaps[m]
            new == termIdMaps'[m]
        IN  IF last'.op = "union"
               /\ _get_degree_of_similarity(datasets[last'.d], last'.arg)
                    # SIMILARITY_SAME_TERMIDMAP
            THEN /\ \A i \in DOMAIN termIdMaps : i # m => termIdMaps'[i] = termIdMaps[i]
                 /\ \A key \in DOMAIN old.termsToIdentifiers :
                       /\ key \in DOMAIN new.termsToIdentifiers
                       /\ new.termsToIdentifiers[key] = old.termsToIdentifiers[key]
                 /\ \A key \in DOMAIN new.termsToIdentifiers \ DOMAIN old.termsToIdentifiers :
                       /\ key \in OtherKeys(last'.arg)
                       /\ new.termsToIdentifiers[key] >= old.nextIdentifier
                 /\ new.nextIdentifier = old.nextIdentifier
                      + Cardinality(DOMAIN new.termsToIdentifiers \ DOMAIN old.termsToIdentifiers)
            ELSE termIdMaps' = termIdMaps ]_vars

C28_Witness ==
  /\ last.op = "union" /\ ~last.threw /\ last.arg.kind = "dataset"
  /\ datasets[last.arg.d].termIdMap # datasets[last.d].termIdMap
  /\ TermQuads(datasets[last.d]) = {Q1}
  /\ TermQuads(datasets[last.r]) = {Q1, Q2}
  /\ MapOf(datasets[last.d]).nextIdentifier = 5

\* the identifiers a TermIdMap has given to terms
Allocated(map) == { map.termsToIdentifiers[key] : key \in DOMAIN map.termsToIdentifiers }

\* C29: in every TermIdMap, findOrBuildIdentifier answers the same identifier for
\* a term on every call; a term that is new gets nextIdentifier, which is at least
\* 1 and above every identifier given before, so that the new identifiers of a
\* step are the consecutive values from the former nextIdentifier on;
\* nextIdentifier never decreases; no identifier is given to two terms.
C29_Monotonic ==
  [][ /\ \A m \in 1..Len(termIdMaps) :
           LET old == termIdMaps[m]
               new == termIdMaps'[m]
               added == DOMAIN new.termsToIdentifiers \ DOMAIN old.termsToIdentifiers
           IN  /\ \A key \in DOMAIN old.termsToIdentifiers :
                     /\ key \in DOMAIN new.termsToIdentifiers
                     /\ new.termsToIdentifiers[key] = old.termsToIdentifiers[key]
               /\ new.nextIdentifier >= old.nextIdentifier
               /\ { new.termsToIdentifiers[key] : key \in added } =
                    old.nextIdentifier .. (new.nextIdentifier - 1)
      /\ \A m \in 1..Len(termIdMaps') :
           LET map == termIdMaps'[m]
           IN  /\ map.nextIdentifier >= 1
               /\ map.termsToIdentifiers[concise(DefaultGraph)] = 0
               /\ Allocated(map) \subseteq 0..(map.nextIdentifier - 1)
               /\ Cardinality(Allocated(map)) = Cardinality(DOMAIN map.termsToIdentifiers)
               /\ \A term \in Terms :
                     LET once == findOrBuildIdentifier(map, term)
                     IN  /\ findOrBuildIdentifierRet(once, term) =
                              findOrBuildIdentifierRet(map, term)
                         /\ findOrBuildIdentifier(once, term) = once
                         /\ findIdentifier(map, term) = UndefinedId =>
                              /\ findOrBuildIdentifierRet(map, term) = map.nextIdentifier
                              /\ once.nextIdentifier = map.nextIdentifier + 1 ]_vars

C29_Witness ==
  /\ last.op = "add" /\ last.d = 2
  /\ datasets[last.d].klass \in Isolated
  /\ datasets[last.d].termIdMap # datasets[1].termIdMap
  /\ termIdMaps[datasets[1].termIdMap].nextIdentifier = 4
  /\ MapOf(datasets[last.d]).nextIdentifier = 5
  /\ findIdentifier(MapOf(datasets[last.d]), TG) = 4

\* C30: for each of the sixteen bound sets B, one of the six orders has a prefix of
\* length |B| that is a permutation of B, and the order a forest uses to answer a
\* pattern of bound set B is such an order, which the forest has materialized
C30_PrefixScan ==
  /\ \A B \in BoundSets : \E i \in 1..Len(Orders) : Qualifies(Orders[i], B)
  /\ quadForest.op \in { "ensure_index", "match" }
       => /\ quadForest.order \in quadForest.materialized
          /\ Qualifies(Orders[quadForest.order], quadForest.bound)

\* a pattern that binds the subject and the object was answered by OSPG, which the
\* forest materialized beside its anchor
C30_Witness ==
  /\ quadForest.op = "match"
  /\ quadForest.bound = { "s", "o" }
  /\ Orders[quadForest.order] = OSPG
  /\ quadForest.anchor # quadForest.order
  /\ quadForest.order \in quadForest.materialized

\* C31: after any sequence of insert, remove, bulk_load, delete_matches, ensure_index
\* and match on one forest, every materialized ordered set holds exactly the elements
\* of the anchor, and a call of ensure_index or match, whether or not it builds an
\* index, leaves the elements of the forest as they were
C31_Coherence ==
  /\ [](/\ quadForest.anchor \in quadForest.materialized
        /\ \A i \in quadForest.materialized : quadForest.sets[i] = Members(quadForest))
  /\ [][quadForest'.op \in { "ensure_index", "match" } /\ quadForest'.anchor = quadForest.anchor
          => Members(quadForest') = Members(quadForest)]_vars

\* a match built a third order on a forest of two quads, which one quad then left
C31_Witness ==
  /\ quadForest.op = "remove"
  /\ Cardinality(quadForest.materialized) >= 3
  /\ Cardinality(Members(quadForest)) = 1
  /\ \A i \in quadForest.materialized : quadForest.sets[i] = Members(quadForest)

\* C32: in every TermIdMap, also one made by duplicate and then grown, the
\* identifier findOrBuildIdentifier returns for a term decodes back to that term
\* in the map the call leaves, for every term
C32_Decodes ==
  \A m \in 1..Len(termIdMaps) : \A term \in Terms :
    getTerm(findOrBuildIdentifier(termIdMaps[m], term),
            findOrBuildIdentifierRet(termIdMaps[m], term)) = fromTerm(term)

\* the identifier lists match may hand to TermIdMap.duplicate for facade d: the
\* lists of the quads the facade holds
ListsOf(d) == { SortedList(quads) : quads \in SUBSET HeldIn(datasets, d) }

\* duplicate(source, identifierList) returns a map that knows exactly the terms
\* source has at the identifiers of the list and at 0, under the same identifiers,
\* and that has the nextIdentifier of source
IsCloneOf(source, identifierList) ==
  /\ ~duplicateThrows(source, identifierList)
  /\ LET clone == duplicate(source, identifierList)
         kept == IdentifiersIn(identifierList) \cup { 0 }
     IN  /\ clone.nextIdentifier = source.nextIdentifier
         /\ \A term \in Terms :
              IF findIdentifier(source, term) \in kept
              THEN /\ findIdentifier(clone, term) = findIdentifier(source, term)
                   /\ getTerm(clone, findIdentifier(clone, term)) = fromTerm(term)
              ELSE findIdentifier(clone, term) = UndefinedId
         /\ \A identifier \in 0..(source.nextIdentifier - 1) :
              IF identifier \in kept
              THEN /\ getTerm(clone, identifier) # UndefinedTerm
                   /\ findIdentifier(clone, getTerm(clone, identifier)) = identifier
              ELSE getTerm(clone, identifier) = UndefinedTerm

\* C33: TermIdMap.duplicate, on the TermIdMap of any facade and any list of quads
\* the facade holds, returns a new map that knows exactly the identifiers of the
\* list and 0, with the terms and the nextIdentifier of the source; the call that
\* duplicates leaves the source as it was, and a later step changes at most one map
C33_Duplicate ==
  /\ [](\A d \in Live : \A identifierList \in ListsOf(d) :
          IsCloneOf(MapOf(datasets[d]), identifierList))
  /\ [][ /\ last'.op = "match" =>
              \A m \in 1..Len(termIdMaps) : termIdMaps'[m] = termIdMaps[m]
         /\ Cardinality({ m \in 1..Len(termIdMaps) : termIdMaps'[m] # termIdMaps[m] }) <= 1
       ]_vars

\* the steps of the store that look terms up
StoreLookups == { "match", "countQuads", "removeMatches", "asyncCall", "removeData" }

Due(stream) ==
  LET list == storeMatch(stream.before, stream.pattern)
  IN  [i \in 1..(Len(list) \div 4) |->
         getQuad(stream.before.termIdMap, QuadAt(list, 4 * (i - 1)))]

\* C35: a stream returned by match of the store pushes the quads that matched the
\* pattern when match was called, in the order of the identifier list of that
\* moment, each once, and then null at most once, after the last of them; it pushes
\* no quad when the store was empty or freed at the call; what is added to,
\* removed from or freed in the store after the call changes none of this
C35_MatchStream ==
  \A k \in 1..Len(matches) :
    LET stream == matches[k]
        had == IF stream.before.forest.defined
               THEN Matching(stream.before, stream.pattern) ELSE {}
    IN  /\ stream.ended <= 1
        /\ Len(stream.pushed) <= Len(Due(stream))
        /\ \A i \in 1..Len(stream.pushed) : stream.pushed[i] = Due(stream)[i]
        /\ { Due(stream)[i] : i \in 1..Len(Due(stream)) } = had
        /\ Len(Due(stream)) = Cardinality(had)
        /\ stream.ended = 1 => Len(stream.pushed) = Len(Due(stream))

\* a stream pushed the two quads of the store and ended after the store was freed
C35_Witness ==
  /\ Len(matches) = 1
  /\ matches[1].ended = 1
  /\ Len(matches[1].pushed) = 2
  /\ matches[1].pushed[1] # matches[1].pushed[2]
  /\ ~store.forest.defined
  /\ slast.op = "read" /\ slast.before = store

\* C36: a call of add, delete, deleteMatches or free on a facade leaves every other
\* facade, the one it was derived from and those derived from it by match or
\* filter, with the quads it yields, the quads it has and its size, so that what
\* decoded before the call decodes after it; free leaves every TermIdMap as it was
C36_Independent ==
  [][ last'.op \in { "add", "delete", "deleteMatches", "free" } =>
        /\ \A e \in 1..Len(datasets) :
             e # last'.d =>
               Contents(datasets', termIdMaps', e) = Contents(datasets, termIdMaps, e)
        /\ last'.op = "free" => termIdMaps' = termIdMaps ]_vars

\* the parent was freed; the facade that match derived from it, with which it
\* shares its TermIdMap, still yields its quad
C36_Witness ==
  /\ last.op = "free" /\ last.d = 1
  /\ Len(datasets) = 2
  /\ datasets[2].termIdMap = datasets[1].termIdMap
  /\ datasets[2].identifierList.defined
  /\ size(datasets[1]) = 0
  /\ TermQuads(datasets[2]) = { GraphyQuad(Q2) }

\* what next() has returned so far, for an iterator: quads the facade had when the
\* iterator was built, no quad twice, and all of them once it has reported done
VisitsWhatItHad(it) ==
  /\ \A i \in 1..Len(it.yielded) : \E quad \in it.had : it.yielded[i] = GraphyQuad(quad)
  /\ \A i, j \in 1..Len(it.yielded) : i # j => it.yielded[i] # it.yielded[j]
  /\ it.done => Len(it.yielded) = Cardinality(it.had)

ArrayOfItsQuads(ds) ==
  /\ Len(toArray(ds)) = size(ds)
  /\ \A quad \in InputQuads : Occurrences(ds, quad) = IF has(ds, quad) THEN 1 ELSE 0
  /\ \A i \in 1..Len(toArray(ds)) :
       \E quad \in InputQuads : has(ds, quad) /\ toArray(ds)[i] = GraphyQuad(quad)

\* C38: toArray() returns an array of exactly size elements that holds every quad
\* of the facade exactly once, whether the facade holds a forest, a cached
\* identifier list, both or neither
C38_ToArray ==
  \A d \in Live : ArrayOfItsQuads(datasets[d])

\* the calls of next() that returned a quad are as many as the index has advanced
\* by four, never more than the size the facade had when the iterator was built,
\* and next() reports done exactly when they are as many as that size
DoneAfterSize(it) ==
  /\ it.index = 4 * Len(it.yielded)
  /\ Len(it.yielded) <= it.size
  /\ (it.index >= Len(it.data)) <=> (Len(it.yielded) = it.size)
  /\ it.done => Len(it.yielded) = it.size

====
